---- MODULE Spec2Model ----
(***************************************************************************)
(* Cedar Sells property platform: the relational store (properties and     *)
(* sync_status tables), the write path (POST /api/properties-db/upsert,    *)
(* POST /api/sync/salesforce), the store-backed read path                  *)
(* (PropertyDatabase.getProperties, GET /api/properties-db) and the        *)
(* CRM-backed endpoints (GET /api/properties, GET /api/properties/[id]).   *)
(***************************************************************************)
EXTENDS Integers, Sequences, FiniteSets, TLC

(***************************************************************************)
(* Values.  A string-valued field that is undefined/null in JavaScript or  *)
(* NULL in SQL is Null; an optional number or boolean is a sequence of at  *)
(* most one element.                                                       *)
(***************************************************************************)
Null == "<null>"
None == <<>>
Some(x) == <<x>>
IsSome(o) == Len(o) > 0
Val(o) == o[1]

\* Bounds of the model.
MaxClock == 3
MaxBatch == 2

\* type AccessTier = 'public' | 'registered' | 'vip'; properties.tier CHECK
TierEnum == {"public", "registered", "vip"}

\* The two CRM identifiers the model works with.
SfIds == {"a01", "a02"}

\* Seq(S) restricted to lengths 0..n.
RECURSIVE SeqsUpTo(_, _)
SeqsUpTo(S, n) ==
  IF n = 0 THEN {<<>>}
  ELSE LET shorter == SeqsUpTo(S, n - 1)
       IN  shorter \cup {Append(s, x) : s \in {q \in shorter : Len(q) = n - 1}, x \in S}

VARIABLES
  properties,   \* the properties table, rows in insertion order
  sync_status,  \* sync_status.last_sync_at of the single row id = 1
  now,          \* the clock read by new Date() and NOW()
  apiKeyEnv,    \* process.env.SYNC_API_KEY (Null when not configured)
  reply,        \* the last request handled and the response sent for it
  twin,         \* the response to the same request about a transaction that
                \* differs only in its tier-gated fields
  webhookSecret,\* process.env.CLERK_WEBHOOK_SECRET (Null when not configured)
  leads,        \* the Lead objects created in the CRM, in creation order
  page,         \* the state of the listings page component in a browser
  cookies       \* the cookies the browser holds for the site

vars == <<properties, sync_status, now, apiKeyEnv, reply, twin, webhookSecret, leads, page,
         cookies>>

\* No listings page is open.
NoPage == [backend |-> "none"]

NoReply == [op |-> "none"]

\* The browser holds no cookie of the site.
NoCookies ==
  [ pkce_verifier |-> Null, sf_access_token |-> Null, sf_instance_url |-> Null,
    sf_refresh_token |-> Null ]

\* No request has been handled yet.
Idle == reply = NoReply

\* The clock of the model has not reached its bound.
ClockRuns == now < MaxClock

(***************************************************************************)
(* JavaScript helpers used by the two tier assignments.                    *)
(***************************************************************************)
\* A JSON price: absent, a number, a numeric string or a non-numeric string.
AbsentPrice == [k |-> "absent", v |-> 0]
NumPrice(n) == [k |-> "num", v |-> n]
StrPrice(n) == [k |-> "str", v |-> n]
JunkPrice == [k |-> "junk", v |-> 0]

\* JavaScript truthiness of a JSON price: undefined and 0 are falsy, every
\* non-empty string is truthy.
Truthy(p) == \/ p.k = "num" /\ p.v # 0
             \/ p.k \in {"str", "junk"}

\* parseFloat(x) || 0
ParseFloatOr0(p) == IF p.k \in {"num", "str"} THEN p.v ELSE 0

\* String.prototype.toLowerCase on the tier spellings of the model.
ToLowerCase(s) ==
  CASE s = "VIP" -> "vip"
    [] s = "Registered" -> "registered"
    [] s = "Public" -> "public"
    [] s = "Gold" -> "gold"
    [] OTHER -> s

PriceTierVipAboveThreshold(price) ==
  IF price > 1000000 THEN "vip"
  ELSE IF price >= 300000 THEN "registered"
  ELSE "public"
PriceTier(price) ==
  IF price >= 1000000 THEN "vip"
  ELSE IF price >= 300000 THEN "registered"
  ELSE "public"

(***************************************************************************)
(* POST /api/properties-db/upsert: tier assignment and field transform.    *)
(***************************************************************************)
UpsertTier(prop) ==
  IF prop.tier # Null THEN prop.tier
  ELSE IF Truthy(prop.price) THEN PriceTier(ParseFloatOr0(prop.price))
  ELSE "public"

Or(a, b) == IF a # Null THEN a ELSE b

UpsertTransform(prop, t) ==
  [ salesforce_id   |-> Or(prop.salesforce_id, prop.id),
    address         |-> Or(prop.address, ""),
    price           |-> ParseFloatOr0(prop.price),
    status          |-> Or(prop.status, "Active"),
    tier            |-> UpsertTier(prop),
    investment_path |-> prop.investment_path,
    updated_at      |-> t,
    last_synced_at  |-> t ]

(***************************************************************************)
(* SalesforceSync.transformProperties                                      *)
(***************************************************************************)
SyncTier(record) ==
  IF record.Tier__c # Null THEN ToLowerCase(record.Tier__c)
  ELSE PriceTier(ParseFloatOr0(record.Price__c))

SyncTransform(record, t) ==
  [ salesforce_id   |-> record.Id,
    address         |-> Or(record.Address__c, ""),
    price           |-> ParseFloatOr0(record.Price__c),
    status          |-> Or(record.Status__c, "Active"),
    tier            |-> SyncTier(record),
    investment_path |-> Null,
    updated_at      |-> record.LastModifiedDate,
    last_synced_at  |-> t ]

(***************************************************************************)
(* The properties table: constraints of schema.sql and the upsert          *)
(* statement issued by PropertyDatabase.syncProperties.                    *)
(***************************************************************************)
\* tier TEXT CHECK (tier IN ('public','registered','vip')): a CHECK passes
\* on NULL.
TierCheckDropped(tier) == TRUE
TierCheck(tier) == tier = Null \/ tier \in TierEnum

\* salesforce_id TEXT UNIQUE NOT NULL
NotNullKey(row) == row.salesforce_id # Null

RowAccepted(row) == NotNullKey(row) /\ TierCheck(row.tier)

\* One INSERT ... ON CONFLICT DO UPDATE cannot touch the same row twice.
DistinctKeys(rows) ==
  \A i, j \in 1..Len(rows) : rows[i].salesforce_id = rows[j].salesforce_id => i = j

\* The statement is atomic: it is rejected as a whole.
BatchAccepted(rows) ==
  /\ \A i \in 1..Len(rows) : RowAccepted(rows[i])
  /\ DistinctKeys(rows)

\* onConflict: 'salesforce_id'
ConflictIndexOnId(table, row) == {}
ConflictIndex(table, row) ==
  {i \in 1..Len(table) : table[i].salesforce_id = row.salesforce_id}

\* BEFORE UPDATE trigger update_updated_at_column: NEW.updated_at = NOW()
UpdateTrigger(row, t) == [row EXCEPT !.updated_at = t]

UpsertRow(table, row, t) ==
  IF ConflictIndex(table, row) # {}
  THEN LET i == CHOOSE k \in ConflictIndex(table, row) : TRUE
       IN  [table EXCEPT ![i] = UpdateTrigger(row, t)]
  ELSE Append(table, row)

RECURSIVE UpsertRows(_, _, _)
UpsertRows(table, rows, t) ==
  IF rows = <<>> THEN table
  ELSE UpsertRows(UpsertRow(table, Head(rows), t), Tail(rows), t)

\* PropertyDatabase.syncProperties: the new table, or the old one with an
\* error when the store rejects the statement or cannot be reached.
DbSyncOk(rows, dbUp) == dbUp /\ BatchAccepted(rows)
DbSyncPropertiesRowByRow(table, rows, t, dbUp) ==
  IF dbUp THEN UpsertRows(table, SelectSeq(rows, RowAccepted), t) ELSE table
DbSyncProperties(table, rows, t, dbUp) ==
  IF DbSyncOk(rows, dbUp) THEN UpsertRows(table, rows, t) ELSE table

\* PropertyDatabase.updateSyncStatus: an error is logged, never thrown.
UpdateSyncStatus(old, t, dbUp) == IF dbUp THEN t ELSE old

(***************************************************************************)
(* Request inputs of the write path.                                       *)
(***************************************************************************)
AuthHeaders == {Null, "Bearer secret"}

\* if (apiKey && authHeader !== `Bearer ${apiKey}`)
Unauthorized(header) == apiKeyEnv # Null /\ header # "Bearer " \o apiKeyEnv

\* Which of the two store calls of a write fails for a reason of its own
\* (network, credentials): none, the upsert, or the sync_status update.
DbFaults == {"none", "upsert", "status"}

\* The faults a request is tried with: all of them for a request that
\* carries the key and writes one record, none for the other requests.
FaultsFor(header, batch) ==
  IF header # Null /\ Len(batch) = 1 THEN DbFaults ELSE {"none"}

RawProp(sfid, id, tier, price, st, ip) ==
  [ salesforce_id |-> sfid, id |-> id, tier |-> tier, price |-> price,
    address |-> "12 Oak St", status |-> st, investment_path |-> ip ]

\* JSON property objects sent to the upsert endpoint.
RawProps ==
  { RawProp("a01", Null, Null, AbsentPrice, Null, Null),
    RawProp("a01", Null, "vip", NumPrice(250000), "Sold", Null),
    RawProp(Null, "a02", Null, StrPrice(300000), Null, Null),
    RawProp(Null, "a02", Null, NumPrice(1000000), Null, "Contract Cancelled/Lost"),
    RawProp("a02", "a01", "VIP", AbsentPrice, Null, Null),
    RawProp(Null, Null, "registered", JunkPrice, Null, Null) }

UpsertBodies == SeqsUpTo(RawProps, MaxBatch) \ {<<>>}

MapSeq(s, F(_)) == [i \in 1..Len(s) |-> F(s[i])]

(***************************************************************************)
(* POST /api/properties-db/upsert                                          *)
(***************************************************************************)
\* The store calls of the upsert handler, with one upsert statement per row.
UpsertCallsPerRow(rows, stored) ==
  [i \in 1..Len(rows) |-> "store.properties.upsert"] \o
  (IF stored THEN <<"store.sync_status.upsert">> ELSE <<>>)

\* The external calls of the upsert handler once the key is accepted:
\* PropertyDatabase.syncProperties, then, unless that threw,
\* PropertyDatabase.updateSyncStatus.
UpsertCalls(rows, stored) ==
  IF stored THEN <<"store.properties.upsert", "store.sync_status.upsert">>
  ELSE <<"store.properties.upsert">>

PostUpsert(header, body, fault) ==
  /\ ClockRuns
  /\ IF Unauthorized(header)
     THEN /\ reply' = [op |-> "upsert", authorization |-> header, status |-> 401, success |-> FALSE,
                       count |-> 0, applied |-> <<>>, calls |-> <<>>]
          /\ UNCHANGED <<properties, sync_status, now>>
     ELSE LET t == now + 1
              transformedProperties == MapSeq(body, LAMBDA p : UpsertTransform(p, t))
              dbUp == fault # "upsert"
          IN  /\ now' = t
              /\ properties' = DbSyncProperties(properties, transformedProperties, t, dbUp)
              /\ IF DbSyncOk(transformedProperties, dbUp)
                 THEN /\ sync_status' = UpdateSyncStatus(sync_status, t, fault # "status")
                      /\ reply' = [op |-> "upsert", authorization |-> header, status |-> 200, success |-> TRUE,
                                   count |-> Len(transformedProperties), applied |-> body,
                                   calls |-> UpsertCalls(transformedProperties, TRUE)]
                 ELSE /\ sync_status' = sync_status
                      /\ reply' = [op |-> "upsert", authorization |-> header, status |-> 500, success |-> FALSE,
                                   count |-> 0, applied |-> <<>>,
                                   calls |-> UpsertCalls(transformedProperties, FALSE)]
  /\ UNCHANGED <<apiKeyEnv, twin, webhookSecret, leads, page, cookies>>

(***************************************************************************)
(* POST /api/sync/salesforce and SalesforceSync.syncProperties.  The sync  *)
(* authenticates and queries through the CRM client; how far the CRM lets  *)
(* it get is an input of the request.                                      *)
(***************************************************************************)
CrmRecord(id, tier, price, st) ==
  [ Id |-> id, Tier__c |-> tier, Price__c |-> price, Status__c |-> st,
    Address__c |-> "7 Elm St", LastModifiedDate |-> 0 ]

\* Property__c records of the CRM.
CrmRecords ==
  { CrmRecord("a01", Null, NumPrice(1000000), "Active"),
    CrmRecord("a01", "Gold", AbsentPrice, "Pending"),
    CrmRecord("a02", "VIP", NumPrice(250000), "Active"),
    CrmRecord("a02", Null, JunkPrice, "Under Contract") }

\* A SOQL query returns every record once.
CrmResults ==
  {rs \in SeqsUpTo(CrmRecords, MaxBatch) :
     \A i, j \in 1..Len(rs) : rs[i].Id = rs[j].Id => i = j}

\* The query results a CRM outcome is tried with: the sync sees a result
\* only when the CRM lets it get to one.
ResultsFor(crm) == IF crm = "ok" THEN CrmResults ELSE {<<>>}

\* How far the CRM lets the sync get: missing credentials, a failed
\* authentication, a failed query, or a query result.
CrmOutcomes == {"no-credentials", "auth-failed", "query-failed", "ok"}

\* The result of SalesforceSync.syncProperties: the catch block turns every
\* failure into a result.
SyncFailureReportedAsSuccess(message) ==
  [success |-> TRUE, count |-> 0, errors |-> <<message>>]
SyncFailure(message) == [success |-> FALSE, count |-> 0, errors |-> <<message>>]

SyncSuccess(count, errors) == [success |-> TRUE, count |-> count, errors |-> errors]

\* The error message of the step the CRM stops the sync at.
CrmErrorMessage(crm) ==
  CASE crm = "no-credentials" ->
         "SALESFORCE_USERNAME and SALESFORCE_PASSWORD must be set for sync operations"
    [] crm = "auth-failed" -> "Salesforce authentication failed"
    [] crm = "query-failed" -> "Salesforce query failed"

\* The response of the route to a result, with the request, the outcome of
\* the CRM step, the number of records fetched and the outcome of the store
\* upsert it was computed from.
SyncReply(header, crm, fetched, stored, result, applied) ==
  [op |-> "sync", authorization |-> header, crm |-> crm, fetched |-> fetched,
   stored |-> stored,
   status |-> IF result.success THEN 200 ELSE 500,
   success |-> result.success, count |-> result.count, errors |-> result.errors,
   applied |-> applied]

PostSyncSalesforce(header, crm, records, fault) ==
  /\ ClockRuns
  /\ IF Unauthorized(header)
     THEN /\ reply' = [op |-> "sync", authorization |-> header, crm |-> "not-called",
                       fetched |-> 0, stored |-> FALSE, status |-> 401,
                       success |-> FALSE, count |-> 0,
                       errors |-> <<"Unauthorized">>, applied |-> <<>>]
          /\ UNCHANGED <<properties, sync_status, now>>
     ELSE IF crm # "ok"
     THEN /\ reply' = SyncReply(header, crm, 0, FALSE,
                                SyncFailure(CrmErrorMessage(crm)), <<>>)
          /\ UNCHANGED <<properties, sync_status, now>>
     ELSE IF records = <<>>
     THEN /\ reply' = SyncReply(header, crm, 0, FALSE,
                                SyncSuccess(0, <<"No properties found in Salesforce">>), <<>>)
          /\ UNCHANGED <<properties, sync_status, now>>
     ELSE LET t == now + 1
              transformedProperties == MapSeq(records, LAMBDA r : SyncTransform(r, t))
              dbUp == fault # "upsert"
          IN  /\ now' = t
              /\ properties' = DbSyncProperties(properties, transformedProperties, t, dbUp)
              /\ IF DbSyncOk(transformedProperties, dbUp)
                 THEN /\ sync_status' = UpdateSyncStatus(sync_status, t, fault # "status")
                      /\ reply' = SyncReply(header, crm, Len(records), TRUE,
                                            SyncSuccess(Len(transformedProperties), <<>>),
                                            records)
                 ELSE /\ sync_status' = sync_status
                      /\ reply' = SyncReply(header, crm, Len(records), FALSE,
                                            SyncFailure("Database sync failed"), <<>>)
  /\ UNCHANGED <<apiKeyEnv, twin, webhookSecret, leads, page, cookies>>

(***************************************************************************)
(* Viewers.  A viewer is signed in or not (Clerk userId) and, when signed  *)
(* in, may be a VIP member.                                                *)
(***************************************************************************)
Viewers ==
  { [userId |-> Null, vip |-> FALSE],
    [userId |-> "user_1", vip |-> FALSE],
    [userId |-> "user_2", vip |-> TRUE] }

\* The tier a viewer holds (README, Access Tiers).
ViewerTier(v) ==
  IF v.userId = Null THEN "public" ELSE IF v.vip THEN "vip" ELSE "registered"

TierRank(t) == CASE t = "public" -> 0 [] t = "registered" -> 1 [] t = "vip" -> 2

(***************************************************************************)
(* PropertyDatabase.getProperties                                          *)
(***************************************************************************)
\* query.in('tier', allowedTiers) / query.eq('tier', 'public')
TierFilterWithoutPublicTest(tier, row) ==
  IF tier # Null
  THEN LET allowedTiers == IF tier = "vip" THEN {"public", "registered", "vip"}
                           ELSE {"public", "registered"}
       IN  row.tier \in allowedTiers
  ELSE row.tier = "public"
TierFilter(tier, row) ==
  IF tier # Null /\ tier # "public"
  THEN LET allowedTiers == IF tier = "vip" THEN {"public", "registered", "vip"}
                           ELSE {"public", "registered"}
       IN  row.tier \in allowedTiers
  ELSE row.tier = "public"

\* .eq('status','Active').or('investment_path.neq.Contract Cancelled/Lost,investment_path.is.null')
ActiveFilter(row) ==
  /\ row.status = "Active"
  /\ (row.investment_path = Null \/ row.investment_path # "Contract Cancelled/Lost")

Matching(table, tier) ==
  SelectSeq(table, LAMBDA row : ActiveFilter(row) /\ TierFilter(tier, row))

Orderings(n) == {f \in [1..n -> 1..n] : \A i, j \in 1..n : f[i] = f[j] => i = j}

\* .order('updated_at', { ascending: false }): rows of equal updated_at come
\* in any order.
OrderedDesc(rows) ==
  LET n == Len(rows)
      perms == {[i \in 1..n |-> rows[f[i]]] : f \in Orderings(n)}
  IN  {s \in perms : \A i \in 1..n, j \in 1..n : i < j => s[i].updated_at >= s[j].updated_at}

\* query.limit(limit)
Limit(rows, limit) == SubSeq(rows, 1, IF limit < Len(rows) THEN limit ELSE Len(rows))

\* Transform snake_case to camelCase for JavaScript
ToProperty(row) ==
  [ address |-> row.address, price |-> row.price, status |-> row.status,
    tier |-> row.tier, salesforceId |-> row.salesforce_id,
    investmentPath |-> row.investment_path, updatedAt |-> row.updated_at,
    lastSyncedAt |-> row.last_synced_at ]

\* The results getProperties(tier, limit) can return; [] on a query error.
GetPropertiesResults(table, tier, limit, dbUp) ==
  IF dbUp
  THEN {MapSeq(Limit(s, limit), ToProperty) : s \in OrderedDesc(Matching(table, tier))}
  ELSE {<<>>}

\* A direct call getProperties(tier, limit).
GetProperties(tier, limit, dbUp) ==
  /\ Idle
  /\ \E rows \in GetPropertiesResults(properties, tier, limit, dbUp) :
        reply' = [op |-> "getProperties", tier |-> tier, limit |-> limit, rows |-> rows]
  /\ UNCHANGED <<properties, sync_status, now, apiKeyEnv, twin, webhookSecret, leads, page, cookies>>

(***************************************************************************)
(* GET /api/properties-db                                                  *)
(***************************************************************************)
\* userTier: 'registered' for a signed-in user, 'public' otherwise and when
\* Clerk is not available.
DbUserTier(viewer, clerkUp) ==
  IF clerkUp /\ viewer.userId # Null THEN "registered" ELSE "public"

EffectiveTier(userTier, tier) ==
  IF userTier = "vip" THEN tier
  ELSE IF userTier = "registered" /\ tier # "vip" THEN tier
  ELSE "public"

\* PropertyDatabase.getLastSyncTime
GetLastSyncTime(dbUp) == IF dbUp THEN Some(sync_status) ELSE None

\* The external calls of the handler: auth(), getProperties and
\* getLastSyncTime; without the store's environment variables getSupabase()
\* throws before the first query is sent.
PropertiesDbCalls(db) ==
  IF db = "unconfigured" THEN <<"clerk.auth">>
  ELSE <<"clerk.auth", "store.properties.select", "store.sync_status.select">>

\* The responses the handler can give, each with the request it answers.
PropertiesDbReplies(viewer, clerkUp, tierParam, limit, offset, db) ==
  LET tier == Or(tierParam, "public")
      userTier == DbUserTier(viewer, clerkUp)
      effectiveTier == EffectiveTier(userTier, tier)
  IN  IF db = "unconfigured"
      THEN {[op |-> "properties-db", viewer |-> viewer, requested |-> tier,
             limit |-> limit, offset |-> offset, status |-> 500,
             tier |-> effectiveTier, properties |-> <<>>, totalCount |-> 0,
             hasMore |-> FALSE, lastSyncedAt |-> None, calls |-> PropertiesDbCalls(db)]}
      ELSE {[op |-> "properties-db", viewer |-> viewer, requested |-> tier,
             limit |-> limit, offset |-> offset, status |-> 200,
             tier |-> effectiveTier, properties |-> rows,
             totalCount |-> Len(rows), hasMore |-> (Len(rows) = limit),
             lastSyncedAt |-> GetLastSyncTime(db = "up"), calls |-> PropertiesDbCalls(db)] :
              rows \in GetPropertiesResults(properties, effectiveTier, limit, db = "up")}

GetPropertiesDb(viewer, clerkUp, tierParam, limit, offset, db) ==
  /\ Idle
  /\ reply' \in PropertiesDbReplies(viewer, clerkUp, tierParam, limit, offset, db)
  /\ UNCHANGED <<properties, sync_status, now, apiKeyEnv, twin, webhookSecret, leads, page, cookies>>

(***************************************************************************)
(* Specification of the write path: the store under upserts and syncs.     *)
(***************************************************************************)
Init ==
  /\ properties = <<>>
  /\ sync_status = 0
  /\ now = 0
  /\ apiKeyEnv \in {Null, "secret"}
  /\ reply = NoReply
  /\ twin = NoReply
  /\ webhookSecret = Null
  /\ leads = <<>>
  /\ page = NoPage
  /\ cookies = NoCookies

Next ==
  \/ ClockRuns /\ \E header \in AuthHeaders, body \in UpsertBodies :
                     \E fault \in FaultsFor(header, body) :
                        PostUpsert(header, body, fault)
  \/ ClockRuns /\ \E header \in AuthHeaders, crm \in CrmOutcomes :
                     \E records \in ResultsFor(crm) :
                        \E fault \in FaultsFor(header, records) :
                           PostSyncSalesforce(header, crm, records, fault)

Spec == Init /\ [][Next]_vars

(***************************************************************************)
(* Specification of the store-backed read path: one read of any content    *)
(* the properties table can hold.                                          *)
(***************************************************************************)
StoredRows ==
  [ salesforce_id : SfIds, address : {"12 Oak St"}, price : {250000},
    status : {"Active", "Sold"}, tier : TierEnum,
    investment_path : {Null, "Contract Cancelled/Lost"},
    updated_at : {1, 2}, last_synced_at : {2} ]

\* Tables that satisfy the UNIQUE constraint on salesforce_id.
StoreContents == {tbl \in SeqsUpTo(StoredRows, Cardinality(SfIds)) : DistinctKeys(tbl)}

TierParams == {Null, "public", "registered", "vip", "gold"}
Limits == {1, 20}
Offsets == {0, 1}
DbStates == {"up", "down", "unconfigured"}

InitDb ==
  /\ properties \in StoreContents
  /\ sync_status = 2
  /\ now = 2
  /\ apiKeyEnv = Null
  /\ reply = NoReply
  /\ twin = NoReply
  /\ webhookSecret = Null
  /\ leads = <<>>
  /\ page = NoPage
  /\ cookies = NoCookies

NextDb ==
  \/ Idle /\ \E tier \in TierParams, limit \in Limits, dbUp \in BOOLEAN :
        GetProperties(tier, limit, dbUp)
  \/ Idle /\ \E viewer \in Viewers, clerkUp \in BOOLEAN, tierParam \in TierParams,
        limit \in Limits, offset \in Offsets, db \in DbStates :
        GetPropertiesDb(viewer, clerkUp, tierParam, limit, offset, db)

SpecDb == InitDb /\ [][NextDb]_vars

(***************************************************************************)
(* transformSalesforceTransaction (lib/salesforce.ts)                      *)
(***************************************************************************)
DealTypes == {"Fix & Flip", "Wholesale", "Rental"}

\* x || 0 on an optional number
OrZero(o) == IF IsSome(o) /\ Val(o) # 0 THEN Val(o) ELSE 0

\* x || false on an optional boolean
OrFalse(o) == IsSome(o) /\ Val(o)

\* flipMetrics given to every deal that is not a wholesale.
FlipMetricsOfAnyDeal(transaction) ==
  IF transaction.Deal_Type__c # "Wholesale"
  THEN Some([ arv |-> OrZero(transaction.ARV__c),
              rehabEstimate |-> OrZero(transaction.Rehab_Estimate__c),
              spread |-> OrZero(transaction.Spread__c),
              roi |-> OrZero(transaction.ROI__c) ])
  ELSE None

FlipMetricsOf(transaction) ==
  IF transaction.Deal_Type__c = "Fix & Flip"
  THEN Some([ arv |-> OrZero(transaction.ARV__c),
              rehabEstimate |-> OrZero(transaction.Rehab_Estimate__c),
              spread |-> OrZero(transaction.Spread__c),
              roi |-> OrZero(transaction.ROI__c) ])
  ELSE None

RentalMetricsOf(transaction) ==
  IF transaction.Deal_Type__c = "Rental"
  THEN Some([ grossYield |-> OrZero(transaction.Gross_Yield__c),
              capRate |-> OrZero(transaction.Cap_Rate__c),
              monthlyRent |-> transaction.Monthly_Rent__c ])
  ELSE None

TransformSalesforceTransaction(transaction, images) ==
  [ id |-> transaction.Id,
    street |-> transaction.Street_Address__c,
    city |-> transaction.City__c,
    dealType |-> transaction.Deal_Type__c,
    accessTier |-> transaction.Access_Tier__c,
    isOffMarket |-> OrFalse(transaction.Is_Off_Market__c),
    images |-> images,
    thumbnailUrl |-> IF Len(images) > 0 THEN images[1] ELSE "/placeholder-house.jpg",
    flipMetrics |-> FlipMetricsOf(transaction),
    rentalMetrics |-> RentalMetricsOf(transaction),
    notes |-> transaction.Notes__c,
    showingInstructions |-> transaction.Showing_Instructions__c ]

(***************************************************************************)
(* GET /api/properties/[id]                                                *)
(***************************************************************************)
\* const isVip = false; // Implement VIP check logic
IsVip(viewer) == FALSE

\* Determine user's access tier
AccessTierOf(viewer) ==
  IF viewer.userId # Null
  THEN IF IsVip(viewer) THEN "vip" ELSE "registered"
  ELSE "public"

RegistrationNotice == "Address available after registration"

\* Apply access tier filtering
PublicFilterKeepingSpread(property) ==
  [ property EXCEPT
      !.street = RegistrationNotice,
      !.showingInstructions = Null,
      !.notes = Null,
      !.rentalMetrics = IF IsSome(property.rentalMetrics)
                        THEN Some([Val(property.rentalMetrics) EXCEPT !.monthlyRent = None])
                        ELSE None ]
PublicFilter(property) ==
  [ property EXCEPT
      !.street = RegistrationNotice,
      !.showingInstructions = Null,
      !.notes = Null,
      !.flipMetrics = IF IsSome(property.flipMetrics)
                      THEN Some([Val(property.flipMetrics) EXCEPT !.spread = 0])
                      ELSE None,
      !.rentalMetrics = IF IsSome(property.rentalMetrics)
                        THEN Some([Val(property.rentalMetrics) EXCEPT !.monthlyRent = None])
                        ELSE None ]

\* transaction.Access_Tier__c === 'vip' && accessTier !== 'vip'
VipOnly(transaction, accessTier) ==
  transaction.Access_Tier__c = "vip" /\ accessTier # "vip"

\* transaction.Access_Tier__c === 'registered' && accessTier === 'public'
RegistrationRequiredDropped(transaction, accessTier) == FALSE
RegistrationRequired(transaction, accessTier) ==
  transaction.Access_Tier__c = "registered" /\ accessTier = "public"

DetailResponse(status, error, property) ==
  [status |-> status, success |-> (status = 200), error |-> error, property |-> property]

\* The handler: auth(), getTransaction, the two tier checks, the images,
\* the transform and the filtering of the public view.
PropertyDetail(viewer, clerkUp, crm, transaction, images) ==
  LET accessTier == AccessTierOf(viewer)
  IN  IF ~clerkUp THEN DetailResponse(500, "Failed to fetch property", None)
      ELSE IF crm = "not-found" THEN DetailResponse(404, "Property not found", None)
      ELSE IF crm # "ok" THEN DetailResponse(500, "Failed to fetch property", None)
      ELSE IF VipOnly(transaction, accessTier)
      THEN DetailResponse(403, "Access denied", None)
      ELSE IF RegistrationRequired(transaction, accessTier)
      THEN DetailResponse(401, "Registration required", None)
      ELSE LET property == TransformSalesforceTransaction(transaction, images)
           IN  DetailResponse(200, Null,
                              Some(IF accessTier = "public" THEN PublicFilter(property)
                                   ELSE property))

\* The transaction with its tier-gated fields (street, notes, showing
\* instructions, flip spread, monthly rent) replaced by fixed values.
Blinded(transaction) ==
  [ transaction EXCEPT
      !.Street_Address__c = "1 Main St",
      !.Notes__c = Null,
      !.Showing_Instructions__c = Null,
      !.Spread__c = None,
      !.Monthly_Rent__c = None ]

\* SalesforceClient.ensureAuthenticated: the client requests a token when
\* it holds none or an expired one; a refused token request ends the fetch.
CrmSessions(crm) ==
  IF crm = "error" THEN {"cached", "renewed", "refused"} ELSE {"cached", "renewed"}

\* The requests of salesforceClient.getTransaction.
GetTransactionCalls(session) ==
  IF session = "cached" THEN <<"crm.getTransaction">>
  ELSE IF session = "renewed" THEN <<"crm.token", "crm.getTransaction">>
  ELSE <<"crm.token">>

\* The external calls of the handler: auth(), getTransaction and, when
\* neither tier check has answered, getPropertyImages.
DetailCalls(viewer, clerkUp, crm, transaction, session) ==
  IF ~clerkUp THEN <<"clerk.auth">>
  ELSE IF crm # "ok" THEN <<"clerk.auth">> \o GetTransactionCalls(session)
  ELSE IF \/ VipOnly(transaction, AccessTierOf(viewer))
          \/ RegistrationRequired(transaction, AccessTierOf(viewer))
  THEN <<"clerk.auth">> \o GetTransactionCalls(session)
  ELSE <<"clerk.auth">> \o GetTransactionCalls(session) \o <<"cloudinary.getPropertyImages">>

GetPropertyDetail(viewer, clerkUp, crm, transaction, images) ==
  /\ Idle
  /\ \E session \in CrmSessions(crm) :
        reply' = [op |-> "detail", viewer |-> viewer, fetched |-> (clerkUp /\ crm = "ok"),
                  transaction |-> transaction,
                  calls |-> DetailCalls(viewer, clerkUp, crm, transaction, session),
                  response |-> PropertyDetail(viewer, clerkUp, crm, transaction, images)]
  /\ twin' = [op |-> "detail", viewer |-> viewer,
              response |-> PropertyDetail(viewer, clerkUp, crm, Blinded(transaction), images)]
  /\ UNCHANGED <<properties, sync_status, now, apiKeyEnv, webhookSecret, leads, page, cookies>>

(***************************************************************************)
(* GET /api/properties                                                     *)
(***************************************************************************)
\* transformSalesforceRecord (app/api/properties/route.ts)
TransformSalesforceRecord(record) ==
  LET dealType == "Wholesale"
      street == Or(record.Left_Main__Street_Address__c, "Address Not Available")
      city == Or(record.Left_Main__City__c, "City Not Available")
  IN  [ id |-> record.Id,
        street |-> street,
        city |-> city,
        dealType |-> dealType,
        accessTier |-> "registered",
        isOffMarket |-> (record.Left_Main__Dispo_Status__c = "Closed/Won"),
        flipMetrics |-> None,
        rentalMetrics |-> None ]

ListingResponse(status, success, props, hasMore) ==
  [status |-> status, success |-> success, properties |-> props,
   totalCount |-> Len(props), hasMore |-> hasMore]

\* catch (salesforceError): fall back to empty result
QueryFailureAsError == ListingResponse(500, FALSE, <<>>, FALSE)
QueryFailureResponse == ListingResponse(200, TRUE, <<>>, FALSE)

\* The handler: auth(), the token cookies, the SOQL query, the transform and
\* the deal-type filter.
PropertyListing(viewer, clerkUp, tokens, crmOk, records, done, dealTypes) ==
  LET accessTier == AccessTierOf(viewer)
  IN  IF ~clerkUp THEN ListingResponse(500, FALSE, <<>>, FALSE)
      ELSE IF ~tokens THEN ListingResponse(200, TRUE, <<>>, FALSE)
      ELSE IF ~crmOk THEN QueryFailureResponse
      ELSE LET transformed == MapSeq(records, TransformSalesforceRecord)
               filtered == IF dealTypes # {}
                           THEN SelectSeq(transformed, LAMBDA p : p.dealType \in dealTypes)
                           ELSE transformed
           IN  ListingResponse(200, TRUE, filtered, ~done)

GetPropertiesListing(viewer, clerkUp, tokens, crmOk, records, done, dealTypes) ==
  /\ Idle
  /\ reply' = [op |-> "listing", viewer |-> viewer, records |-> records,
               clerkUp |-> clerkUp, tokens |-> tokens, crmOk |-> crmOk,
               response |-> PropertyListing(viewer, clerkUp, tokens, crmOk, records,
                                            done, dealTypes)]
  /\ UNCHANGED <<properties, sync_status, now, apiKeyEnv, twin, webhookSecret, leads, page, cookies>>

(***************************************************************************)
(* Specification of the CRM-backed endpoints: one request, whatever the    *)
(* CRM holds and answers.                                                  *)
(***************************************************************************)
MaxRecords == 2

OptionalNumbers(n) == {None, Some(n)}

Transactions ==
  [ Id : {"a0T1"},
    Street_Address__c : {"12 Oak St", "7 Elm St"},
    City__c : {"Lafayette"},
    Deal_Type__c : DealTypes,
    Access_Tier__c : TierEnum,
    Is_Off_Market__c : {None, Some(TRUE), Some(FALSE)},
    ARV__c : OptionalNumbers(95000),
    Rehab_Estimate__c : {Some(15000)},
    Spread__c : OptionalNumbers(5000),
    ROI__c : {None},
    Gross_Yield__c : {Some(12)},
    Cap_Rate__c : OptionalNumbers(8),
    Monthly_Rent__c : OptionalNumbers(1200),
    Notes__c : {Null, "Seller is motivated"},
    Showing_Instructions__c : {Null, "Lockbox 4417"} ]

CrmFetches == {"ok", "not-found", "error"}
ImageLists == {<<>>, <<"https://res.cloudinary.com/cedar/a0T1-1.jpg">>}

ListingRecords ==
  [ Id : {"a0T1", "a0T2", "a0T3"},
    Left_Main__Street_Address__c : {Null, "12 Oak St"},
    Left_Main__City__c : {"Lafayette"},
    Left_Main__Dispo_Status__c : {"Closed/Won", "Marketing"} ]

QueryResults ==
  {rs \in SeqsUpTo(ListingRecords, MaxRecords) :
     \A i, j \in 1..Len(rs) : rs[i].Id = rs[j].Id => i = j}

DealTypeParams == {{}, {"Wholesale"}, {"Rental"}}

InitApi ==
  /\ properties = <<>>
  /\ sync_status = 0
  /\ now = 0
  /\ apiKeyEnv = Null
  /\ reply = NoReply
  /\ twin = NoReply
  /\ webhookSecret = Null
  /\ leads = <<>>
  /\ page = NoPage
  /\ cookies = NoCookies

NextApi ==
  \/ Idle /\ \E viewer \in Viewers, clerkUp \in BOOLEAN, crm \in CrmFetches,
        transaction \in Transactions, images \in ImageLists :
        GetPropertyDetail(viewer, clerkUp, crm, transaction, images)
  \/ Idle /\ \E viewer \in Viewers, clerkUp \in BOOLEAN, tokens \in BOOLEAN, crmOk \in BOOLEAN,
        records \in QueryResults, done \in BOOLEAN, dealTypes \in DealTypeParams :
        GetPropertiesListing(viewer, clerkUp, tokens, crmOk, records, done, dealTypes)

SpecApi == InitApi /\ [][NextApi]_vars

(***************************************************************************)
(* Properties.                                                             *)
(***************************************************************************)
SeqRange(s) == {s[i] : i \in 1..Len(s)}

\* The tiers a viewer of tier t may see.
VisibleTiers(t) ==
  IF t = "vip" THEN {"public", "registered", "vip"}
  ELSE IF t = "registered" THEN {"public", "registered"}
  ELSE {"public"}

\* C1: every property returned by getProperties(t) has a tier the viewer may
\* see: only 'public' rows when t is 'public' or not given, only 'public' or
\* 'registered' rows when t is 'registered', rows of any tier when t is 'vip'.
GetPropertiesReturnsVisibleTiers ==
  reply.op = "getProperties" /\ reply.tier \in TierEnum \cup {Null} =>
    \A p \in SeqRange(reply.rows) :
       p.tier \in VisibleTiers(IF reply.tier = Null THEN "public" ELSE reply.tier)

\* A registered-tier query answered with a registered row from a table that
\* also holds an active vip row.
GetPropertiesFilteredForRegistered ==
  /\ reply.op = "getProperties"
  /\ reply.tier = "registered"
  /\ \E p \in SeqRange(reply.rows) : p.tier = "registered"
  /\ \E row \in SeqRange(properties) : row.tier = "vip" /\ ActiveFilter(row)

\* C2: the single-property endpoint returns no property body to a viewer
\* below the property's tier; a fetched 'vip' property asked for by a non-VIP
\* viewer is answered 403 'Access denied' and a fetched 'registered' property
\* asked for by an unauthenticated viewer 401 'Registration required'.
DetailDeniedBelowTier ==
  reply.op = "detail" =>
    LET tier == reply.transaction.Access_Tier__c
        viewerTier == ViewerTier(reply.viewer)
        r == reply.response
    IN  /\ IsSome(r.property) => TierRank(tier) <= TierRank(viewerTier)
        /\ reply.fetched /\ tier = "vip" /\ viewerTier # "vip" =>
             r.status = 403 /\ r.error = "Access denied" /\ r.property = None
        /\ reply.fetched /\ tier = "registered" /\ viewerTier = "public" =>
             r.status = 401 /\ r.error = "Registration required" /\ r.property = None

\* An unauthenticated viewer has asked for a registered property that the
\* CRM returned.
PublicAskedForRegisteredProperty ==
  /\ reply.op = "detail"
  /\ reply.fetched
  /\ reply.viewer.userId = Null
  /\ reply.transaction.Access_Tier__c = "registered"
  /\ reply.response.status = 401

\* C3: for an unauthenticated viewer the single-property response is the one
\* given for the same transaction with other street, notes, showing
\* instructions, flip spread and monthly rent; the street is the registration
\* notice, notes, showingInstructions and monthlyRent are absent and the flip
\* spread (when there are flip metrics) is 0.
PublicDetailHidesGatedFields ==
  reply.op = "detail" /\ reply.viewer.userId = Null =>
    /\ reply.response = twin.response
    /\ IsSome(reply.response.property) =>
         LET property == Val(reply.response.property)
         IN  /\ property.street = RegistrationNotice
             /\ property.notes = Null
             /\ property.showingInstructions = Null
             /\ IsSome(property.flipMetrics) => Val(property.flipMetrics).spread = 0
             /\ IsSome(property.rentalMetrics) =>
                  Val(property.rentalMetrics).monthlyRent = None

\* An unauthenticated viewer was served a Fix & Flip property that has
\* notes, showing instructions and a spread in the CRM.
PublicServedFlipWithGatedFields ==
  /\ reply.op = "detail"
  /\ reply.viewer.userId = Null
  /\ reply.response.status = 200
  /\ reply.transaction.Deal_Type__c = "Fix & Flip"
  /\ reply.transaction.Notes__c # Null
  /\ reply.transaction.Showing_Instructions__c # Null
  /\ reply.transaction.Spread__c = Some(5000)
  /\ reply.transaction # Blinded(reply.transaction)

\* C4: GET /api/properties returns to a viewer only properties whose
\* accessTier is at or below the viewer's tier; an unauthenticated viewer
\* receives only 'public' properties.
ListingAtOrBelowViewerTier ==
  reply.op = "listing" =>
    \A p \in SeqRange(reply.response.properties) :
       p.accessTier \in VisibleTiers(ViewerTier(reply.viewer))

\* C5: no listing response (GET /api/properties, GET /api/properties-db) sent
\* to an unauthenticated viewer carries a street address other than the
\* registration notice.
ListingStreets(r) ==
  IF r.op = "listing" THEN {p.street : p \in SeqRange(r.response.properties)}
  ELSE IF r.op = "properties-db" THEN {p.address : p \in SeqRange(r.properties)}
  ELSE {}

PublicListingHidesStreet ==
  reply.op \in {"listing", "properties-db"} /\ reply.viewer.userId = Null =>
    ListingStreets(reply) \subseteq {RegistrationNotice}

\* C6: GET /api/properties-db queries the store with the more restrictive of
\* the caller's tier and the requested tier, for every combination of the two.
MoreRestrictive(a, b) == IF TierRank(a) <= TierRank(b) THEN a ELSE b

EffectiveTierIsMoreRestrictive ==
  reply.op = "properties-db" /\ reply.status = 200 /\ reply.requested \in TierEnum =>
    reply.tier = MoreRestrictive(ViewerTier(reply.viewer), reply.requested)

\* C7: a VIP user who asks for a 'vip' property that the CRM returns is
\* served that property.
VipUserServedVipProperty ==
  reply.op = "detail" /\ reply.fetched /\ reply.viewer.vip
    /\ reply.transaction.Access_Tier__c = "vip" =>
      /\ reply.response.status = 200
      /\ IsSome(reply.response.property)
      /\ Val(reply.response.property).accessTier = "vip"

\* The code's behaviour behind C7: no response of a CRM-backed endpoint and
\* no response of GET /api/properties-db carries a property of tier 'vip'.
ServedTiers(r) ==
  IF r.op = "listing" THEN {p.accessTier : p \in SeqRange(r.response.properties)}
  ELSE IF r.op = "detail"
       THEN {p.accessTier : p \in SeqRange(r.response.property)}
  ELSE IF r.op = "properties-db" THEN {p.tier : p \in SeqRange(r.properties)}
  ELSE {}

NoVipPropertyServed == "vip" \notin ServedTiers(reply)

\* C8: a property flagged off-market is never returned to a public or a
\* registered viewer, by the single-property endpoint or by the listing.
OffMarketOnlyForVip ==
  reply.op \in {"detail", "listing"} /\ ViewerTier(reply.viewer) # "vip" =>
    LET served == IF reply.op = "detail"
                  THEN SeqRange(reply.response.property)
                  ELSE SeqRange(reply.response.properties)
    IN  \A p \in served : ~p.isOffMarket

\* C9: the store holds at most one row per salesforce_id; a successful write
\* whose ids are all stored adds no row; and a successful write that repeats
\* the batch of the write before it leaves the rows as they were, apart from
\* the timestamps updated_at and last_synced_at.
StoredKeys(table) == {row.salesforce_id : row \in SeqRange(table)}

AppliedKeys(r) ==
  IF r.op = "upsert" THEN {Or(p.salesforce_id, p.id) : p \in SeqRange(r.applied)}
  ELSE IF r.op = "sync" THEN {rec.Id : rec \in SeqRange(r.applied)}
  ELSE {}

WroteBatch(r) == r.op \in {"upsert", "sync"} /\ r.status = 200 /\ r.applied # <<>>

WithoutTimestamps(table) ==
  MapSeq(table, LAMBDA row : [row EXCEPT !.updated_at = 0, !.last_synced_at = 0])

OneRowPerSalesforceId == DistinctKeys(properties)

WriteOfStoredIdsAddsNoRow ==
  now' # now /\ WroteBatch(reply') /\ AppliedKeys(reply') \subseteq StoredKeys(properties)
    => Len(properties') = Len(properties)
       /\ StoredKeys(properties') = StoredKeys(properties)

RepeatedWriteChangesNothing ==
  now' # now /\ WroteBatch(reply) /\ WroteBatch(reply')
    /\ reply'.op = reply.op /\ reply'.applied = reply.applied
    => WithoutTimestamps(properties') = WithoutTimestamps(properties)

StoredTierInEnum == \A row \in SeqRange(properties) : row.tier \in TierEnum

\* A CRM record with Tier__c 'VIP' and a price below the thresholds is stored.
UppercaseCrmTierStored ==
  \E row \in SeqRange(properties) :
     row.address = "7 Elm St" /\ row.price = 250000 /\ row.tier = "vip"

(***************************************************************************)
(* Specification of the tier assignment: one write of one record, over the *)
(* supplied tiers and the prices around the two thresholds.                *)
(***************************************************************************)
SuppliedTiers == {Null, "public", "registered", "vip", "VIP"}

ThresholdPrices ==
  { AbsentPrice, JunkPrice, NumPrice(0), NumPrice(299999), NumPrice(300000),
    StrPrice(999999), NumPrice(1000000) }

TierProps ==
  {RawProp(sfid, Null, tier, price, Null, Null) :
     sfid \in SfIds, tier \in SuppliedTiers, price \in ThresholdPrices}

TierRecords ==
  {CrmRecord(id, tier, price, "Active") :
     id \in SfIds, tier \in SuppliedTiers, price \in ThresholdPrices}

InitTier ==
  /\ properties = <<>>
  /\ sync_status = 0
  /\ now = 0
  /\ apiKeyEnv = Null
  /\ reply = NoReply
  /\ twin = NoReply
  /\ webhookSecret = Null
  /\ leads = <<>>
  /\ page = NoPage
  /\ cookies = NoCookies

NextTier ==
  \/ Idle /\ \E prop \in TierProps : PostUpsert(Null, <<prop>>, "none")
  \/ Idle /\ \E record \in TierRecords : PostSyncSalesforce(Null, "ok", <<record>>, "none")

SpecTier == InitTier /\ [][NextTier]_vars

\* C11: the tier stored for a written record is the tier the source record
\* supplies (in the store's lower-case spelling), whatever the price; without
\* a supplied tier it is 'vip' for a price >= 1,000,000, 'registered' for
\* 300,000 <= price < 1,000,000 and 'public' for a lower, missing or
\* unparsable price.
SuppliedTierOf(r, x) == IF r.op = "upsert" THEN x.tier ELSE x.Tier__c

SuppliedPriceOf(r, x) == IF r.op = "upsert" THEN x.price ELSE x.Price__c

KeyOf(r, x) == IF r.op = "upsert" THEN Or(x.salesforce_id, x.id) ELSE x.Id

TierByPrice(p) ==
  IF p.k \in {"absent", "junk"} THEN "public"
  ELSE IF p.v >= 1000000 THEN "vip"
  ELSE IF p.v >= 300000 THEN "registered"
  ELSE "public"

StoredTierSuppliedOrByPrice ==
  WroteBatch(reply) =>
    \A x \in SeqRange(reply.applied) :
       \E row \in SeqRange(properties) :
          /\ row.salesforce_id = KeyOf(reply, x)
          /\ IF SuppliedTierOf(reply, x) # Null
             THEN ToLowerCase(row.tier) = ToLowerCase(SuppliedTierOf(reply, x))
             ELSE row.tier = TierByPrice(SuppliedPriceOf(reply, x))

\* A record without a tier and with a price of exactly 1,000,000 was stored
\* by the upsert endpoint.
UpsertStoredThresholdPrice ==
  /\ reply.op = "upsert"
  /\ WroteBatch(reply)
  /\ reply.applied[1].tier = Null
  /\ reply.applied[1].price = NumPrice(1000000)
  /\ properties[1].tier = "vip"

\* C12: every POST to /api/properties-db/upsert or /api/sync/salesforce whose
\* Authorization header is not 'Bearer <SYNC_API_KEY>' is answered 401, and a
\* request answered 401 leaves the properties table and the sync status as
\* they were.
IsWrite(r) == r.op \in {"upsert", "sync"}

CarriesSyncApiKey(r) == apiKeyEnv # Null /\ r.authorization = "Bearer " \o apiKeyEnv

WriteRequiresBearerKey ==
  IsWrite(reply) /\ ~CarriesSyncApiKey(reply) => reply.status = 401

\* The part of C12 the code keeps: with SYNC_API_KEY configured a request
\* without the key is answered 401, and no request answered 401 changes the
\* store.
KeyedWriteRequiresBearerKey ==
  apiKeyEnv # Null => WriteRequiresBearerKey

RejectedWriteChangesNothing ==
  [][IsWrite(reply') /\ reply'.status = 401 =>
       properties' = properties /\ sync_status' = sync_status]_vars

(***************************************************************************)
(* GET /api/properties, the variant with authentication disabled: the CRM  *)
(* client first, sample properties without token cookies, the SOQL query   *)
(* otherwise.                                                              *)
(***************************************************************************)

\* const sampleProperties: Property[]
SampleProperty(id, dealType, market, street, listPrice, bedrooms, bathrooms, squareFeet) ==
  [ id |-> id, dealType |-> dealType, market |-> market, street |-> street,
    listPrice |-> listPrice, bedrooms |-> bedrooms, bathrooms |-> bathrooms,
    squareFeet |-> squareFeet, accessTier |-> "public", isOffMarket |-> FALSE ]

sampleProperties ==
  << SampleProperty("sample-1", "Fix & Flip", "lafayette", "123 Oak Street", 75000, 3, 2, 1200),
     SampleProperty("sample-2", "Rental", "baton-rouge", "456 Pine Avenue", 120000, 3, 2, 1400),
     SampleProperty("sample-3", "Wholesale", "lafayette", "789 Cypress Lane", 65000, 2, 1, 900) >>

\* Array.prototype.slice(start, end)
Slice(s, start, end) ==
  LET to == IF end < Len(s) THEN end ELSE Len(s)
  IN  IF start >= to THEN <<>> ELSE SubSeq(s, start + 1, to)

\* The mapping of the records the CRM client returns.
TransformClientRecord(record) ==
  SampleProperty(record.Id, "Wholesale", "lafayette",
                 Or(record.Left_Main__Street_Address__c, "Address Not Available"),
                 75000, 3, 2, 1200)

\* getMarketFromCity
GetMarketFromCity(city) == IF city = "Baton Rouge" THEN "baton-rouge" ELSE "lafayette"

\* transformSalesforceRecord of the variant
TransformSalesforceRecordDemo(record) ==
  [ id |-> record.Id, dealType |-> "Wholesale",
    market |-> GetMarketFromCity(Or(record.Left_Main__City__c, "City Not Available")),
    street |-> Or(record.Left_Main__Street_Address__c, "Address Not Available"),
    listPrice |-> 0, bedrooms |-> 3, bathrooms |-> 2, squareFeet |-> 1200,
    accessTier |-> "registered",
    isOffMarket |-> (record.Left_Main__Dispo_Status__c = "Closed/Won") ]

DemoResponse(props, totalCount, hasMore, message) ==
  [status |-> 200, success |-> TRUE, properties |-> props, totalCount |-> totalCount,
   hasMore |-> hasMore, message |-> message]

\* Apply filters to sample data
FilterSamples(dealTypes, markets) ==
  LET byDealType == IF dealTypes # {}
                    THEN SelectSeq(sampleProperties, LAMBDA prop : prop.dealType \in dealTypes)
                    ELSE sampleProperties
  IN  IF markets # {}
      THEN SelectSeq(byDealType, LAMBDA prop : prop.market \in markets)
      ELSE byDealType

PropertyListingDemo(tokens, clientOk, crmOk, records, done, dealTypes, markets, limit, offset) ==
  IF clientOk /\ Len(records) > 0
  THEN DemoResponse(MapSeq(records, TransformClientRecord), Len(records), ~done,
                    "Live data from Salesforce")
  ELSE IF ~tokens
  THEN LET filteredProperties == FilterSamples(dealTypes, markets)
       IN  DemoResponse(Slice(filteredProperties, offset, offset + limit),
                        Len(filteredProperties),
                        (offset + limit) < Len(filteredProperties),
                        "Demo properties - Connect Salesforce for live data")
  ELSE IF ~crmOk
  THEN DemoResponse(<<>>, 0, FALSE, "Unable to fetch properties from Salesforce")
  ELSE LET transformed == MapSeq(records, TransformSalesforceRecordDemo)
           filtered == IF dealTypes # {}
                       THEN SelectSeq(transformed, LAMBDA p : p.dealType \in dealTypes)
                       ELSE transformed
       IN  DemoResponse(filtered, Len(filtered), ~done, Null)

ListingDemoReply(tokens, clientOk, crmOk, records, done, dealTypes, markets, limit, offset) ==
  [op |-> "listing-demo", tokens |-> tokens, clientOk |-> clientOk,
   crmOk |-> crmOk, records |-> records, dealTypes |-> dealTypes,
   markets |-> markets, limit |-> limit, offset |-> offset,
   response |-> PropertyListingDemo(tokens, clientOk, crmOk, records, done,
                                    dealTypes, markets, limit, offset)]

GetPropertiesListingDemo(tokens, clientOk, crmOk, records, done, dealTypes, markets, limit, offset) ==
  /\ Idle
  /\ reply' = ListingDemoReply(tokens, clientOk, crmOk, records, done, dealTypes,
                               markets, limit, offset)
  /\ UNCHANGED <<properties, sync_status, now, apiKeyEnv, twin, webhookSecret, leads, page, cookies>>

MarketParams == {{}, {"lafayette"}, {"baton-rouge"}}
DemoDealTypeParams == {{}, {"Wholesale"}, {"Rental", "Fix & Flip"}}

NextListing ==
  \/ Idle /\ \E viewer \in Viewers, clerkUp \in BOOLEAN, tokens \in BOOLEAN, crmOk \in BOOLEAN,
        records \in QueryResults, done \in BOOLEAN, dealTypes \in DealTypeParams :
        GetPropertiesListing(viewer, clerkUp, tokens, crmOk, records, done, dealTypes)
  \/ Idle /\ \E tokens \in BOOLEAN, clientOk \in BOOLEAN, crmOk \in BOOLEAN,
        records \in QueryResults, done \in BOOLEAN, dealTypes \in DemoDealTypeParams,
        markets \in MarketParams, limit \in Limits, offset \in Offsets :
        GetPropertiesListingDemo(tokens, clientOk, crmOk, records, done, dealTypes,
                                 markets, limit, offset)

SpecListing == InitApi /\ [][NextListing]_vars

\* C13: a failed Salesforce query in the listing endpoint is answered with
\* status 200, success true and an empty property list (totalCount 0, hasMore
\* false); a request without Salesforce tokens is answered with status 200
\* and success true, with an empty list or with sample properties.
EmptySuccess(r) ==
  /\ r.status = 200
  /\ r.success
  /\ r.properties = <<>>
  /\ r.totalCount = 0
  /\ ~r.hasMore

SampleSuccess(r) ==
  /\ r.status = 200
  /\ r.success
  /\ SeqRange(r.properties) \subseteq SeqRange(sampleProperties)

ListingFailureFallsBack ==
  /\ reply.op = "listing" /\ reply.clerkUp =>
       /\ reply.tokens /\ ~reply.crmOk => EmptySuccess(reply.response)
       /\ ~reply.tokens => EmptySuccess(reply.response)
  /\ reply.op = "listing-demo" /\ ~reply.clientOk =>
       /\ reply.tokens /\ ~reply.crmOk => EmptySuccess(reply.response)
       /\ ~reply.tokens => SampleSuccess(reply.response)

\* The variant has answered a request without tokens, after a failed client
\* query, with two sample properties.
SamplesServedWithoutTokens ==
  /\ reply.op = "listing-demo"
  /\ ~reply.tokens
  /\ ~reply.clientOk
  /\ Len(reply.response.properties) = 2

\* The listing endpoint has answered a failed SOQL query of a signed-in
\* viewer with tokens.
QueryFailureAnswered ==
  /\ reply.op = "listing"
  /\ reply.clerkUp
  /\ reply.tokens
  /\ ~reply.crmOk
  /\ reply.records # <<>>
  /\ reply.response.status = 200

(***************************************************************************)
(* POST /api/webhooks/clerk                                                *)
(***************************************************************************)
MaxLeads == 2

\* The svix library accepts a delivery whose signature was made with the
\* endpoint secret and whose timestamp is within the tolerance.
GoodSignature == "v1,signed-with-secret"

WebhookVerify(svixId, svixTimestamp, svixSignature) ==
  svixTimestamp = "fresh" /\ svixSignature = GoodSignature

\* if (!svixId || !svixTimestamp || !svixSignature)
MissingSvixHeaders(svixId, svixTimestamp, svixSignature) ==
  svixId = Null \/ svixTimestamp = Null \/ svixSignature = Null

\* user.email_addresses?.find(email => email.primary)?.email_address
RECURSIVE FindPrimary(_)
FindPrimary(emails) ==
  IF emails = <<>> THEN Null
  ELSE IF Head(emails).primary THEN Head(emails).email_address
  ELSE FindPrimary(Tail(emails))

FirstEmailAddress(user) ==
  IF user.email_addresses = <<>> THEN Null ELSE Head(user.email_addresses).email_address
PrimaryEmailOf(user) == FindPrimary(user.email_addresses)

\* !primaryEmail: undefined and the empty string are falsy
NoPrimaryEmail(primaryEmail) == primaryEmail = Null \/ primaryEmail = ""

\* Prepare Salesforce Lead data
LeadData(user, primaryEmail) ==
  [ FirstName |-> Or(user.first_name, "Unknown"),
    LastName |-> "Investor",
    Email |-> primaryEmail,
    LeadSource |-> "Website Registration",
    Status |-> "New",
    Website_User_ID__c |-> user.id ]

WebhookReply(request, status, calls) ==
  [op |-> "webhook", request |-> request, status |-> status, createLead |-> calls]

\* The handler.  request holds the three svix headers and the event of the
\* body; crm is what the CRM does with a createLead call.
PostClerkWebhook(request, crm) ==
  LET evt == request.evt
      user == evt.data
      primaryEmail == PrimaryEmailOf(user)
      leadData == LeadData(user, primaryEmail)
  IN  IF webhookSecret = Null
      THEN /\ reply' = WebhookReply(request, 500, <<>>)
           /\ leads' = leads
      ELSE IF MissingSvixHeaders(request.svixId, request.svixTimestamp, request.svixSignature)
      THEN /\ reply' = WebhookReply(request, 400, <<>>)
           /\ leads' = leads
      ELSE IF ~WebhookVerify(request.svixId, request.svixTimestamp, request.svixSignature)
      THEN /\ reply' = WebhookReply(request, 400, <<>>)
           /\ leads' = leads
      ELSE IF evt.type = "user.created"
      THEN IF NoPrimaryEmail(primaryEmail)
           THEN /\ reply' = WebhookReply(request, 400, <<>>)
                /\ leads' = leads
           ELSE IF crm = "created"
           THEN /\ reply' = WebhookReply(request, 200, <<leadData>>)
                /\ leads' = Append(leads, leadData)
           ELSE /\ reply' = WebhookReply(request, 500, <<leadData>>)
                /\ leads' = leads
      ELSE /\ reply' = WebhookReply(request, 200, <<>>)
           /\ leads' = leads

ClerkWebhook(request, crm) ==
  /\ Len(leads) < MaxLeads
  /\ PostClerkWebhook(request, crm)
  /\ UNCHANGED <<properties, sync_status, now, apiKeyEnv, twin, webhookSecret, page, cookies>>

EmailAddress(address, primary) == [email_address |-> address, primary |-> primary]

EmailLists ==
  { <<>>,
    <<EmailAddress("a@cedar.test", FALSE)>>,
    <<EmailAddress("a@cedar.test", TRUE)>>,
    <<EmailAddress("a@cedar.test", FALSE), EmailAddress("b@cedar.test", TRUE)>>,
    <<EmailAddress("", TRUE)>> }

ClerkUsers ==
  [id : {"user_1", "user_2"}, first_name : {Null}, email_addresses : EmailLists]

ClerkEvents ==
  [type : {"user.created", "user.updated", "session.created"}, data : ClerkUsers]

WebhookRequests ==
  [ svixId : {Null, "msg_1"},
    svixTimestamp : {Null, "fresh", "stale"},
    svixSignature : {Null, GoodSignature, "v1,forged"},
    evt : ClerkEvents ]

CreateLeadOutcomes == {"created", "rejected", "throws"}

InitWebhook ==
  /\ properties = <<>>
  /\ sync_status = 0
  /\ now = 0
  /\ apiKeyEnv = Null
  /\ reply = NoReply
  /\ twin = NoReply
  /\ webhookSecret \in {Null, "whsec_1"}
  /\ leads = <<>>
  /\ page = NoPage
  /\ cookies = NoCookies

NextWebhook ==
  Len(leads) < MaxLeads /\ \E request \in WebhookRequests, crm \in CreateLeadOutcomes :
                              ClerkWebhook(request, crm)

SpecWebhook == InitWebhook /\ [][NextWebhook]_vars

\* C14: createLead is called, and a Lead created, only for a request that
\* carries the three svix headers, passes the signature verification, has
\* type user.created and has a primary email; with the webhook secret
\* configured, a request that fails the header or the signature check and a
\* user.created event without a primary email are answered 400; none of them
\* reaches createLead.
HasSvixHeaders(q) == q.svixId # Null /\ q.svixTimestamp # Null /\ q.svixSignature # Null

Verified(q) == q.svixTimestamp = "fresh" /\ q.svixSignature = GoodSignature

HasPrimaryEmail(q) ==
  \E i \in 1..Len(q.evt.data.email_addresses) :
     q.evt.data.email_addresses[i].primary /\ q.evt.data.email_addresses[i].email_address # ""

MayCreateLead(q) ==
  HasSvixHeaders(q) /\ Verified(q) /\ q.evt.type = "user.created" /\ HasPrimaryEmail(q)

WebhookAnswers ==
  reply.op = "webhook" =>
    LET q == reply.request
    IN  /\ reply.createLead # <<>> => MayCreateLead(q)
        /\ webhookSecret # Null /\ (~HasSvixHeaders(q) \/ ~Verified(q)) =>
             reply.status = 400 /\ reply.createLead = <<>>
        /\ webhookSecret # Null /\ HasSvixHeaders(q) /\ Verified(q)
             /\ q.evt.type = "user.created" /\ ~HasPrimaryEmail(q) =>
               reply.status = 400 /\ reply.createLead = <<>>

LeadOnlyFromVerifiedCreation ==
  leads' # leads =>
    /\ reply'.op = "webhook"
    /\ MayCreateLead(reply'.request)
    /\ leads' = Append(leads, reply'.createLead[1])

WebhookCreatesLeadOnlyWhenVerified ==
  []WebhookAnswers /\ [][LeadOnlyFromVerifiedCreation]_vars

\* A verified user.created event whose primary email is the second address
\* has created a Lead with that address.
LeadCreatedFromSecondAddress ==
  /\ reply.op = "webhook"
  /\ reply.status = 200
  /\ Len(reply.request.evt.data.email_addresses) = 2
  /\ leads # <<>>
  /\ leads[Len(leads)].Email = "b@cedar.test"
  /\ leads[Len(leads)].Website_User_ID__c = reply.request.evt.data.id

(***************************************************************************)
(* The listings page (ListingsPage): its component state, the fetch it     *)
(* issues on the initial load, on a filter change and on Load More, and    *)
(* the handler that answers it.  The store-backed page asks                *)
(* /api/properties-db, the earlier page /api/properties.                   *)
(***************************************************************************)
\* The page asks for pages of limit = 20 properties; the model scales the
\* page size down.
PageSize == 2

\* The number of Load More clicks followed.
MaxLoads == 2

\* const [filters, setFilters] = useState<IPropertyFilters>({...})
DefaultFilters ==
  [ dealTypes |-> {}, markets |-> {}, minPrice |-> None, maxPrice |-> None,
    minBedrooms |-> None, minBathrooms |-> None, minSquareFeet |-> None,
    maxSquareFeet |-> None ]

\* The filters a user selects in the sidebar.
FilterChoices ==
  { DefaultFilters,
    [DefaultFilters EXCEPT !.dealTypes = {"Rental"}],
    [DefaultFilters EXCEPT !.markets = {"lafayette"}],
    [DefaultFilters EXCEPT !.minPrice = Some(100000)],
    [DefaultFilters EXCEPT !.maxPrice = Some(300000)],
    [DefaultFilters EXCEPT !.minBedrooms = Some(3)],
    [DefaultFilters EXCEPT !.minBathrooms = Some(2)],
    [DefaultFilters EXCEPT !.maxSquareFeet = Some(1000)] }

OpenPage(backend, viewer) ==
  [ backend |-> backend, viewer |-> viewer, properties |-> <<>>,
    filters |-> DefaultFilters, totalCount |-> 0, hasMore |-> FALSE,
    error |-> FALSE, loaded |-> FALSE, loads |-> 0 ]

\* if (data.success): setProperties, setTotalCount, setHasMore
ShowProperties(base, offset, props, totalCount, hasMore) ==
  [ base EXCEPT
      !.properties = IF offset = 0 THEN props ELSE base.properties \o props,
      !.totalCount = totalCount,
      !.hasMore = hasMore,
      !.error = FALSE ]

\* catch (err): setError
ShowError(base) == [base EXCEPT !.error = TRUE]

\* The states of the CRM connection of the browser a fetch of
\* /api/properties can meet: no token cookies and no client credentials,
\* tokens with a failing query, tokens with a query result.
PageCrmStates == {"no-tokens", "query-failed", "ok"}

PageQueryResults ==
  { <<>>,
    << [ Id |-> "a0T1", Left_Main__Street_Address__c |-> "12 Oak St",
         Left_Main__City__c |-> "Lafayette", Left_Main__Dispo_Status__c |-> "Marketing" ] >> }

\* fetchProperties(currentFilters, offset): the request, the handler's
\* answer and the state update.  base is the component state with the
\* updates made before the fetch.
FetchProperties(base, currentFilters, offset) ==
  IF base.backend = "properties-db"
  THEN \E db \in DbStates :
         \E r \in PropertiesDbReplies(base.viewer, TRUE, Null, PageSize, offset, db) :
           /\ reply' = r
           /\ page' = IF r.status = 200
                      THEN ShowProperties(base, offset, r.properties, r.totalCount, r.hasMore)
                      ELSE ShowError(base)
  ELSE \E crm \in PageCrmStates, records \in PageQueryResults :
         LET r == ListingDemoReply(crm # "no-tokens", FALSE, crm = "ok", records, TRUE,
                                   currentFilters.dealTypes, currentFilters.markets,
                                   PageSize, offset)
         IN  /\ reply' = r
             /\ page' = ShowProperties(base, offset, r.response.properties,
                                       r.response.totalCount, r.response.hasMore)

\* useEffect(() => { fetchProperties(filters) }, [])
InitialLoad ==
  /\ page.backend # "none"
  /\ ~page.loaded
  /\ FetchProperties([page EXCEPT !.loaded = TRUE], page.filters, 0)
  /\ UNCHANGED <<properties, sync_status, now, apiKeyEnv, twin, webhookSecret, leads, cookies>>

\* handleFiltersChange(newFilters)
HandleFiltersChange(newFilters) ==
  /\ page.backend # "none"
  /\ page.loaded
  /\ FetchProperties([page EXCEPT !.filters = newFilters], newFilters, 0)
  /\ UNCHANGED <<properties, sync_status, now, apiKeyEnv, twin, webhookSecret, leads, cookies>>

\* loadMore(): the button is rendered when the list is not empty and
\* hasMore is set.
LoadMore ==
  /\ page.backend # "none"
  /\ page.loaded
  /\ page.properties # <<>>
  /\ page.hasMore
  /\ page.loads < MaxLoads
  /\ FetchProperties([page EXCEPT !.loads = @ + 1], page.filters, Len(page.properties))
  /\ UNCHANGED <<properties, sync_status, now, apiKeyEnv, twin, webhookSecret, leads, cookies>>

\* The rows the store holds while a page is open: active public rows with
\* distinct salesforce_id and updated_at.
CatalogIds == <<"a01", "a02", "a03", "a04", "a05">>
CatalogPrices == <<250000, 400000, 90000, 1200000, 250000>>

CatalogRow(i) ==
  [ salesforce_id |-> CatalogIds[i], address |-> "12 Oak St", price |-> CatalogPrices[i],
    status |-> "Active", tier |-> "public", investment_path |-> Null,
    updated_at |-> i, last_synced_at |-> Len(CatalogIds) ]

PageTables == {[i \in 1..n |-> CatalogRow(i)] : n \in 0..(PageSize + 1)}

InitPage ==
  /\ properties \in PageTables
  /\ sync_status = Len(CatalogIds)
  /\ now = Len(CatalogIds)
  /\ apiKeyEnv = Null
  /\ reply = NoReply
  /\ twin = NoReply
  /\ webhookSecret = Null
  /\ leads = <<>>
  /\ \E backend \in {"properties-db", "properties"}, viewer \in Viewers :
        page = OpenPage(backend, viewer)
  /\ cookies = NoCookies

NextPage ==
  \/ InitialLoad
  \/ \E newFilters \in FilterChoices : HandleFiltersChange(newFilters)
  \/ LoadMore

SpecPage == InitPage /\ [][NextPage]_vars

\* C15: after the user has changed the filters and the list was loaded, every
\* displayed property matches the selected deal types and markets and lies
\* within the selected price, bedroom, bathroom and square-footage bounds.
HasField(p, f) == f \in DOMAIN p

PriceShown(p) == IF HasField(p, "listPrice") THEN p.listPrice ELSE p.price

AtLeast(bound, p, f) == IsSome(bound) /\ HasField(p, f) => p[f] >= Val(bound)

AtMost(bound, p, f) == IsSome(bound) /\ HasField(p, f) => p[f] <= Val(bound)

MatchesFilters(p, f) ==
  /\ f.dealTypes # {} /\ HasField(p, "dealType") => p.dealType \in f.dealTypes
  /\ f.markets # {} /\ HasField(p, "market") => p.market \in f.markets
  /\ IsSome(f.minPrice) => PriceShown(p) >= Val(f.minPrice)
  /\ IsSome(f.maxPrice) => PriceShown(p) <= Val(f.maxPrice)
  /\ AtLeast(f.minBedrooms, p, "bedrooms")
  /\ AtLeast(f.minBathrooms, p, "bathrooms")
  /\ AtLeast(f.minSquareFeet, p, "squareFeet")
  /\ AtMost(f.maxSquareFeet, p, "squareFeet")

DisplayedMatchFilters ==
  page.backend # "none" /\ page.loaded /\ ~page.error =>
    \A p \in SeqRange(page.properties) : MatchesFilters(p, page.filters)

\* The part of C15 the earlier page keeps: the sample properties it displays
\* match the selected deal types and markets.
DisplayedSamplesMatchDealTypesAndMarkets ==
  page.backend = "properties" /\ page.loaded =>
    \A p \in SeqRange(page.properties) :
       p.id \in {"sample-1", "sample-2", "sample-3"} =>
         /\ page.filters.dealTypes # {} => p.dealType \in page.filters.dealTypes
         /\ page.filters.markets # {} => p.market \in page.filters.markets

(***************************************************************************)
(* The middleware (clerkMiddleware) and the routing of page requests.  A   *)
(* path is the sequence of its segments.                                   *)
(***************************************************************************)
MaxPath == 2

Segments == {"dashboard", "profile", "listings", "vip", "registered", "properties", "a0T1"}

\* createRouteMatcher(['/dashboard(.*)', '/profile(.*)', '/listings/vip(.*)'])
isProtectedRoute(path) ==
  \/ Len(path) >= 1 /\ path[1] \in {"dashboard", "profile"}
  \/ Len(path) >= 2 /\ path[1] = "listings" /\ path[2] = "vip"

\* createRouteMatcher(['/listings/registered(.*)', '/properties/(.*)'])
isRegisteredRoute(path) ==
  \/ Len(path) >= 2 /\ path[1] = "listings" /\ path[2] = "registered"
  \/ Len(path) >= 2 /\ path[1] = "properties"

Redirect(to, redirectUrl) == [kind |-> "redirect", to |-> to, redirect_url |-> redirectUrl]

\* The request goes on to the page.
NextResponse == [kind |-> "next", to |-> Null, redirect_url |-> <<>>]

\* The middleware function: auth.protect() sends an unauthenticated page
\* request to the sign-in page.
ClerkMiddleware(viewer, path) ==
  IF isProtectedRoute(path) /\ viewer.userId = Null
  THEN Redirect("/sign-in", path)
  ELSE IF isRegisteredRoute(path) /\ viewer.userId = Null
  THEN Redirect("/sign-in", path)
  ELSE NextResponse

\* export const config = { matcher: [] }: both patterns are commented out
\* ("Temporarily disable middleware to debug deployment issues").
ConfigMatcher == {}

\* '/(api|trpc)(.*)' and the pattern that skips Next.js internals and
\* static files.
PatternMatches(pattern, path) ==
  IF pattern = "/(api|trpc)(.*)" THEN Len(path) >= 1 /\ path[1] \in {"api", "trpc"}
  ELSE TRUE

\* The framework invokes the middleware for the paths config.matcher matches.
MiddlewareRuns(path) == \E pattern \in ConfigMatcher : PatternMatches(pattern, path)

RouteRequest(viewer, path) ==
  /\ Idle
  /\ reply' = [op |-> "route", viewer |-> viewer, path |-> path,
               response |-> IF MiddlewareRuns(path) THEN ClerkMiddleware(viewer, path)
                            ELSE NextResponse]
  /\ twin' = [op |-> "middleware", response |-> ClerkMiddleware(viewer, path)]
  /\ UNCHANGED <<properties, sync_status, now, apiKeyEnv, webhookSecret, leads, page, cookies>>

Paths == SeqsUpTo(Segments, MaxPath)

NextRoutes == Idle /\ \E viewer \in Viewers, path \in Paths : RouteRequest(viewer, path)

SpecRoutes == InitApi /\ [][NextRoutes]_vars

\* C16: an unauthenticated request to /properties/* or /listings/registered*
\* is redirected to /sign-in with redirect_url set to the requested URL, and
\* /dashboard*, /profile* and /listings/vip* are served only to authenticated
\* users.
UnderPath(path, prefix) ==
  Len(path) >= Len(prefix) /\ SubSeq(path, 1, Len(prefix)) = prefix

RegisteredPath(path) ==
  \/ Len(path) >= 2 /\ UnderPath(path, <<"properties">>)
  \/ UnderPath(path, <<"listings", "registered">>)

MembersPath(path) ==
  \/ UnderPath(path, <<"dashboard">>)
  \/ UnderPath(path, <<"profile">>)
  \/ UnderPath(path, <<"listings", "vip">>)

Guards(response, path) ==
  /\ RegisteredPath(path) => response = Redirect("/sign-in", path)
  /\ MembersPath(path) => response.kind # "next"

UnauthenticatedRequestsGuarded ==
  reply.op = "route" /\ reply.viewer.userId = Null => Guards(reply.response, reply.path)

\* The middleware function would keep C16 for every request it is invoked
\* for.
MiddlewareWouldGuard ==
  reply.op = "route" /\ reply.viewer.userId = Null => Guards(twin.response, reply.path)

\* C17: SalesforceSync.syncProperties always returns a result.  When the
\* authentication, the CRM query and the store upsert succeed, the result is
\* success true with count the number of CRM records fetched, and every one
\* of them is in the store as transformed; when a step fails the result is
\* success false, count 0 and one error message, and the route answers 500.
SyncRan(r) == r.op = "sync" /\ r.status # 401

SyncedRow(record) ==
  \E row \in SeqRange(properties) :
     /\ row.salesforce_id = record.Id
     /\ [row EXCEPT !.updated_at = 0, !.last_synced_at = 0]
          = [SyncTransform(record, 0) EXCEPT !.updated_at = 0]

SyncStepsSucceeded(r) == r.crm = "ok" /\ (r.fetched = 0 \/ r.stored)

SyncReportsOutcome ==
  SyncRan(reply) =>
    IF SyncStepsSucceeded(reply)
    THEN /\ reply.success
         /\ reply.status = 200
         /\ reply.count = reply.fetched
         /\ Len(reply.applied) = reply.fetched
         /\ \A record \in SeqRange(reply.applied) : SyncedRow(record)
    ELSE /\ ~reply.success
         /\ reply.count = 0
         /\ Len(reply.errors) = 1
         /\ reply.status = 500

\* A sync of two CRM records has succeeded and both are stored.
SyncStoredTwoRecords ==
  /\ reply.op = "sync"
  /\ reply.success
  /\ reply.count = 2
  /\ Len(properties) = 2
  /\ \A record \in SeqRange(reply.applied) : SyncedRow(record)

(***************************************************************************)
(* Specification of one upsert request: the body is drawn first, then the  *)
(* endpoint handles it, over an empty store or a store of one row.         *)
(***************************************************************************)
PendingUpsert(body) == [op |-> "request", body |-> body]

StoredBefore ==
  { <<>>,
    << [ salesforce_id |-> "a01", address |-> "12 Oak St", price |-> 250000,
         status |-> "Active", tier |-> "public", investment_path |-> Null,
         updated_at |-> 0, last_synced_at |-> 0 ] >> }

InitRequest ==
  /\ properties \in StoredBefore
  /\ sync_status = 0
  /\ now = 0
  /\ apiKeyEnv = Null
  /\ reply = NoReply
  /\ twin \in {PendingUpsert(body) : body \in UpsertBodies}
  /\ webhookSecret = Null
  /\ leads = <<>>
  /\ page = NoPage
  /\ cookies = NoCookies

NextRequest ==
  Idle /\ \E fault \in DbFaults : PostUpsert(Null, twin.body, fault)

SpecRequest == InitRequest /\ [][NextRequest]_vars

\* C18: when the store rejects the batch of an upsert request (a record with
\* neither salesforce_id nor id, or a tier outside the enum), the endpoint
\* answers 500 with success false, the properties table is as it was, and the
\* sync status timestamp is as it was; the same holds for every request
\* answered 500.
LacksKey(p) == p.salesforce_id = Null /\ p.id = Null

TierOutsideEnum(p) == p.tier # Null /\ p.tier \notin TierEnum

StoreRejects(body) == \E p \in SeqRange(body) : LacksKey(p) \/ TierOutsideEnum(p)

RejectedUpsertStoresNothing ==
  [][ reply'.op = "upsert" =>
        /\ StoreRejects(twin.body) => reply'.status = 500
        /\ reply'.status = 500 =>
             /\ ~reply'.success
             /\ properties' = properties
             /\ sync_status' = sync_status ]_vars

\* A batch of a storable record followed by a record without a key was
\* answered 500 and the storable record is not in the store.
MixedBatchRejected ==
  /\ reply.op = "upsert"
  /\ reply.status = 500
  /\ Len(twin.body) = 2
  /\ ~StoreRejects(<<twin.body[1]>>)
  /\ LacksKey(twin.body[2])
  /\ properties = <<>>

\* C19: whenever the upsert endpoint or the sync reports success for a
\* non-empty batch, the step has advanced sync_status.last_sync_at to the time
\* of the write, not before the last_synced_at of the rows it wrote.
SuccessAdvancesSyncStatusStep ==
  now' # now /\ WroteBatch(reply') =>
    /\ sync_status' > sync_status
    /\ sync_status' = now'
    /\ \A row \in SeqRange(properties') :
          row.salesforce_id \in AppliedKeys(reply') => row.last_synced_at <= sync_status'

SuccessAdvancesSyncStatus == [][SuccessAdvancesSyncStatusStep]_vars

\* The part of C19 the code keeps: sync_status changes only in a step that
\* has written a batch, and then to the time of that write.
SyncStatusAdvancesOnlyWithWrite ==
  [][sync_status' # sync_status =>
       WroteBatch(reply') /\ sync_status' = now' /\ sync_status' > sync_status]_vars

\* C20: on the database-backed listing page, after the initial load and any
\* number of Load More operations, no property is displayed twice.
NoDuplicates(list) ==
  \A i, j \in 1..Len(list) : list[i].salesforceId = list[j].salesforceId => i = j

DisplayedOnce ==
  page.backend = "properties-db" /\ page.loaded => NoDuplicates(page.properties)

\* The part of C20 the code keeps: the list of the initial load has no
\* duplicate, and each Load More asks for the offset equal to the number of
\* properties already displayed.
FirstPageDisplayedOnce ==
  page.backend = "properties-db" /\ page.loaded /\ page.loads = 0 =>
    NoDuplicates(page.properties)

LoadMoreAsksNextOffset ==
  [][page.backend = "properties-db" /\ page.loaded /\ page'.loads = page.loads + 1 =>
       reply'.offset = Len(page.properties)]_vars

(***************************************************************************)
(* The Salesforce OAuth web server flow: the initiating route stores a     *)
(* PKCE code verifier in a cookie, the callback route exchanges the        *)
(* authorization code and stores the tokens in cookies.                    *)
(***************************************************************************)
\* generateCodeVerifier(): 32 random bytes, base64url encoded.
Verifiers == {"verifier-1", "verifier-2"}

\* generateCodeChallenge(verifier): the base64url SHA-256 digest of the verifier.
generateCodeChallenge(verifier) ==
  IF verifier = "verifier-1" THEN "s256-of-verifier-1" ELSE "s256-of-verifier-2"

\* NextResponse.redirect(location) with the cookies set on the response
\* (Null: the response does not set that cookie).
RedirectWith(location, setCookies) ==
  [status |-> 307, location |-> location, cookies |-> setCookies]

\* The browser stores the cookies a response sets and keeps the others.
Receive(jar, setCookies) ==
  [ pkce_verifier    |-> Or(setCookies.pkce_verifier, jar.pkce_verifier),
    sf_access_token  |-> Or(setCookies.sf_access_token, jar.sf_access_token),
    sf_instance_url  |-> Or(setCookies.sf_instance_url, jar.sf_instance_url),
    sf_refresh_token |-> Or(setCookies.sf_refresh_token, jar.sf_refresh_token) ]

\* GET /api/auth/salesforce/login: redirects to the authorization URL with
\* the code challenge and stores the verifier; any exception gives a 500.
OAuthInitiateResponse(verifier, crypto) ==
  IF crypto = "throws"
  THEN [status |-> 500, location |-> Null, cookies |-> NoCookies]
  ELSE RedirectWith("https://login.salesforce.com/services/oauth2/authorize",
                    [NoCookies EXCEPT !.pkce_verifier = verifier])

OAuthInitiate(verifier, crypto) ==
  LET response == OAuthInitiateResponse(verifier, crypto)
  IN  /\ reply' = [op |-> "oauth-login", response |-> response,
                   code_challenge |-> IF crypto = "throws" THEN Null
                                      ELSE generateCodeChallenge(verifier)]
      /\ cookies' = Receive(cookies, response.cookies)
      /\ UNCHANGED <<properties, sync_status, now, apiKeyEnv, twin, webhookSecret, leads, page>>

\* The pkce_verifier cookie has maxAge 600: the browser drops it after ten
\* minutes.
ExpireVerifier ==
  /\ cookies.pkce_verifier # Null
  /\ cookies' = [cookies EXCEPT !.pkce_verifier = Null]
  /\ UNCHANGED <<properties, sync_status, now, apiKeyEnv, reply, twin, webhookSecret, leads, page>>

\* The sf_access_token and sf_instance_url cookies have maxAge 7200: the
\* browser drops them after two hours, the refresh token cookie stays for
\* thirty days.
ExpireAccessToken ==
  /\ cookies.sf_access_token # Null
  /\ cookies' = [cookies EXCEPT !.sf_access_token = Null, !.sf_instance_url = Null]
  /\ UNCHANGED <<properties, sync_status, now, apiKeyEnv, reply, twin, webhookSecret, leads, page>>

\* What the token endpoint does with the exchange request: a token response
\* with or without a refresh token, a response that is not ok, or a failure
\* of the fetch itself.
TokenFailure(kind) ==
  [kind |-> kind, access_token |-> Null, instance_url |-> Null, refresh_token |-> Null]

TokenOutcomes ==
  { [kind |-> "ok", access_token |-> "access-1",
     instance_url |-> "https://cedar.my.salesforce.com", refresh_token |-> rt] :
       rt \in {Null, "refresh-1"} }
  \cup {TokenFailure("not-ok"), TokenFailure("throws")}

\* The cookies set from tokenData: access token and instance URL always,
\* the refresh token when the token response carries one.
TokenCookies(tokenData) ==
  [ pkce_verifier |-> Null,
    sf_access_token |-> tokenData.access_token,
    sf_instance_url |-> tokenData.instance_url,
    sf_refresh_token |-> tokenData.refresh_token ]

\* The callback with the test of fetchResponse.ok left out.
TokenExchangeResponseIgnoringStatus(token) ==
  IF token.kind = "throws"
  THEN RedirectWith("/listings?error=auth_server_error", NoCookies)
  ELSE RedirectWith("/listings?salesforce_connected=true",
                    [TokenCookies(token) EXCEPT !.sf_access_token = Or(@, "undefined"),
                                                !.sf_instance_url = Or(@, "undefined")])

\* The callback after the fetch of the token URL.
TokenExchangeResponse(token) ==
  IF token.kind = "throws"
  THEN RedirectWith("/listings?error=auth_server_error", NoCookies)
  ELSE IF token.kind = "not-ok"
  THEN RedirectWith("/listings?error=token_exchange_failed", NoCookies)
  ELSE RedirectWith("/listings?salesforce_connected=true", TokenCookies(token))

\* The code_verifier the callback sends to the token endpoint (Null: the
\* token endpoint is not called).
SentCodeVerifier(code, error, requestCookies) ==
  IF error # Null \/ code = Null THEN Null ELSE requestCookies.pkce_verifier

\* GET /api/auth/salesforce/callback.
OAuthCallbackResponse(code, error, requestCookies, token) ==
  IF error # Null
  THEN RedirectWith("/listings?error=salesforce_auth_failed", NoCookies)
  ELSE IF code = Null
  THEN RedirectWith("/listings?error=no_auth_code", NoCookies)
  ELSE IF requestCookies.pkce_verifier = Null
  THEN RedirectWith("/listings?error=missing_verifier", NoCookies)
  ELSE TokenExchangeResponse(token)

OAuthCallback(code, error, token) ==
  LET response == OAuthCallbackResponse(code, error, cookies, token)
      sent == SentCodeVerifier(code, error, cookies)
  IN  /\ reply' = [op |-> "oauth-callback", code |-> code, error |-> error,
                   code_verifier |-> sent,
                   exchange |-> IF sent = Null THEN "not-called" ELSE token.kind,
                   response |-> response]
      /\ cookies' = Receive(cookies, response.cookies)
      /\ UNCHANGED <<properties, sync_status, now, apiKeyEnv, twin, webhookSecret, leads, page>>

AuthorizationCodes == {Null, "code-1"}
ProviderErrors == {Null, "access_denied"}
CryptoOutcomes == {"ok", "throws"}

InitOAuth ==
  /\ properties = <<>>
  /\ sync_status = 0
  /\ now = 0
  /\ apiKeyEnv = Null
  /\ reply = NoReply
  /\ twin = NoReply
  /\ webhookSecret = Null
  /\ leads = <<>>
  /\ page = NoPage
  /\ cookies = NoCookies

NextOAuth ==
  \/ \E verifier \in Verifiers, crypto \in CryptoOutcomes : OAuthInitiate(verifier, crypto)
  \/ ExpireVerifier
  \/ ExpireAccessToken
  \/ \E code \in AuthorizationCodes, error \in ProviderErrors, token \in TokenOutcomes :
        OAuthCallback(code, error, token)

SpecOAuth == InitOAuth /\ [][NextOAuth]_vars

ErrorRedirects ==
  { "/listings?error=salesforce_auth_failed", "/listings?error=no_auth_code",
    "/listings?error=missing_verifier", "/listings?error=token_exchange_failed",
    "/listings?error=auth_server_error" }

SetsTokenCookie(response) ==
  \/ response.cookies.sf_access_token # Null
  \/ response.cookies.sf_instance_url # Null
  \/ response.cookies.sf_refresh_token # Null

TokenCookiesOf(jar) == <<jar.sf_access_token, jar.sf_instance_url, jar.sf_refresh_token>>

\* C21: the callback sets token cookies only after an exchange that succeeded
\* and that sent the verifier held in the pkce_verifier cookie stored by the
\* initiating request; on a provider error, a missing code, a missing
\* verifier or a failed exchange it redirects to /listings with an error
\* parameter, sets no token cookie and leaves the browser's token cookies as
\* they were.
IsCallback ==
  \E code \in AuthorizationCodes, error \in ProviderErrors, token \in TokenOutcomes :
     OAuthCallback(code, error, token)

CallbackStep ==
  IsCallback =>
    LET failed == \/ reply'.error # Null
                  \/ reply'.code = Null
                  \/ cookies.pkce_verifier = Null
                  \/ reply'.exchange # "ok"
    IN  /\ SetsTokenCookie(reply'.response) =>
             /\ reply'.exchange = "ok"
             /\ reply'.code_verifier # Null
             /\ reply'.code_verifier = cookies.pkce_verifier
             /\ reply'.code_verifier \in Verifiers
        /\ failed =>
             /\ reply'.response.status = 307
             /\ reply'.response.location \in ErrorRedirects
             /\ ~SetsTokenCookie(reply'.response)
             /\ TokenCookiesOf(cookies') = TokenCookiesOf(cookies)
        /\ TokenCookiesOf(cookies') # TokenCookiesOf(cookies) => ~failed

TokenCookiesOnlyAfterVerifiedExchange ==
  [][CallbackStep]_vars /\ [](cookies.sf_access_token # Null <=> cookies.sf_instance_url # Null)

\* A browser that ran the initiating request and then the callback holds
\* the three token cookies while the verifier cookie is still there.
TokensStoredAfterExchange ==
  /\ reply.op = "oauth-callback"
  /\ reply.exchange = "ok"
  /\ reply.code_verifier = "verifier-2"
  /\ cookies.pkce_verifier = "verifier-2"
  /\ cookies.sf_access_token = "access-1"
  /\ cookies.sf_refresh_token = "refresh-1"

(***************************************************************************)
(* transformSalesforceTransaction applied to one transaction and its       *)
(* images, whatever metric fields the CRM record carries.                  *)
(***************************************************************************)
\* The transactions the transform is given: every deal type (and none),
\* every metric field present or missing.
MetricTransactions ==
  [ Id : {"a0T1"},
    Street_Address__c : {"12 Oak St"},
    City__c : {"Lafayette"},
    Deal_Type__c : DealTypes \cup {Null},
    Access_Tier__c : {"public"},
    Is_Off_Market__c : {None},
    ARV__c : OptionalNumbers(95000),
    Rehab_Estimate__c : OptionalNumbers(15000),
    Spread__c : OptionalNumbers(5000),
    ROI__c : OptionalNumbers(18),
    Gross_Yield__c : OptionalNumbers(12),
    Cap_Rate__c : OptionalNumbers(8),
    Monthly_Rent__c : OptionalNumbers(1200),
    Notes__c : {Null},
    Showing_Instructions__c : {Null} ]

\* The image lists, each image given by its url.
MetricImageLists ==
  { <<>>,
    <<"https://res.cloudinary.com/cedar/a0T1-1.jpg">>,
    <<"https://res.cloudinary.com/cedar/a0T1-2.jpg",
      "https://res.cloudinary.com/cedar/a0T1-1.jpg">> }

TransformInput(transaction, images) ==
  [op |-> "transform-input", transaction |-> transaction, images |-> images]

\* One call of transformSalesforceTransaction(transaction, images).
TransformTransaction ==
  /\ Idle
  /\ twin.op = "transform-input"
  /\ reply' = [op |-> "transform",
               property |-> TransformSalesforceTransaction(twin.transaction, twin.images)]
  /\ UNCHANGED <<properties, sync_status, now, apiKeyEnv, twin, webhookSecret, leads, page, cookies>>

InitTransform ==
  /\ properties = <<>>
  /\ sync_status = 0
  /\ now = 0
  /\ apiKeyEnv = Null
  /\ reply = NoReply
  /\ \E transaction \in MetricTransactions, images \in MetricImageLists :
        twin = TransformInput(transaction, images)
  /\ webhookSecret = Null
  /\ leads = <<>>
  /\ page = NoPage
  /\ cookies = NoCookies

NextTransform == TransformTransaction

SpecTransform == InitTransform /\ [][NextTransform]_vars

\* The value of a metric field, 0 when the field is missing.
ZeroWhenMissing(o) == IF IsSome(o) THEN Val(o) ELSE 0

\* The parts of C22 about which metrics exist, the flip metrics, the yield
\* and cap rate, and the thumbnail.
MetricsByDealType(t, images, p) ==
  /\ IsSome(p.flipMetrics) <=> t.Deal_Type__c = "Fix & Flip"
  /\ IsSome(p.rentalMetrics) <=> t.Deal_Type__c = "Rental"
  /\ ~(IsSome(p.flipMetrics) /\ IsSome(p.rentalMetrics))
  /\ t.Deal_Type__c = "Wholesale" => p.flipMetrics = None /\ p.rentalMetrics = None
  /\ IsSome(p.flipMetrics) =>
       /\ Val(p.flipMetrics).arv = ZeroWhenMissing(t.ARV__c)
       /\ Val(p.flipMetrics).rehabEstimate = ZeroWhenMissing(t.Rehab_Estimate__c)
       /\ Val(p.flipMetrics).spread = ZeroWhenMissing(t.Spread__c)
       /\ Val(p.flipMetrics).roi = ZeroWhenMissing(t.ROI__c)
  /\ IsSome(p.rentalMetrics) =>
       /\ Val(p.rentalMetrics).grossYield = ZeroWhenMissing(t.Gross_Yield__c)
       /\ Val(p.rentalMetrics).capRate = ZeroWhenMissing(t.Cap_Rate__c)
  /\ p.thumbnailUrl = IF images = <<>> THEN "/placeholder-house.jpg" ELSE images[1]

\* C22: the transform yields flipMetrics exactly for 'Fix & Flip' and
\* rentalMetrics exactly for 'Rental', never both and neither for
\* 'Wholesale'; every missing metric value, the monthly rent included, is 0;
\* thumbnailUrl is the first image's url or the placeholder.
TransformDefaultsEveryMetricToZero ==
  reply.op = "transform" =>
    /\ MetricsByDealType(twin.transaction, twin.images, reply.property)
    /\ IsSome(reply.property.rentalMetrics) =>
         Val(reply.property.rentalMetrics).monthlyRent =
           Some(ZeroWhenMissing(twin.transaction.Monthly_Rent__c))

\* C22 (amended): as above, but only arv, rehabEstimate, spread, roi,
\* grossYield and capRate default to 0; monthlyRent is the record's
\* Monthly_Rent__c, missing when that is missing.
TransformDefaultsMetricsButRent ==
  reply.op = "transform" =>
    /\ MetricsByDealType(twin.transaction, twin.images, reply.property)
    /\ IsSome(reply.property.rentalMetrics) =>
         Val(reply.property.rentalMetrics).monthlyRent = twin.transaction.Monthly_Rent__c

\* A rental without cap rate and monthly rent, with two images.
RentalWithoutRentTransformed ==
  /\ reply.op = "transform"
  /\ twin.transaction.Deal_Type__c = "Rental"
  /\ twin.transaction.Cap_Rate__c = None
  /\ twin.transaction.Monthly_Rent__c = None
  /\ Len(twin.images) = 2
  /\ Val(reply.property.rentalMetrics).capRate = 0
  /\ Val(reply.property.rentalMetrics).monthlyRent = None
  /\ reply.property.thumbnailUrl = "https://res.cloudinary.com/cedar/a0T1-2.jpg"

(***************************************************************************)
(* The two tier assignments side by side: the same record, with the same   *)
(* supplied tier and price, given to the upsert endpoint's transform and   *)
(* to the sync's transform.                                                *)
(***************************************************************************)
TierSpellings == {Null, "public", "registered", "vip", "VIP", "Registered", "Public"}

PairedPrices ==
  ThresholdPrices \cup {StrPrice(0), StrPrice(300000), NumPrice(999999)}

\* The tier each transform assigns: reply holds the upsert endpoint's, twin
\* the sync's.
AssignTiers(id, tier, price) ==
  /\ Idle
  /\ reply' = [op |-> "upsert-tier", id |-> id, supplied |-> tier, price |-> price,
               tier |-> UpsertTransform(RawProp(id, Null, tier, price, Null, Null), now).tier]
  /\ twin' = [op |-> "sync-tier", id |-> id, supplied |-> tier, price |-> price,
              tier |-> SyncTransform(CrmRecord(id, tier, price, "Active"), now).tier]
  /\ UNCHANGED <<properties, sync_status, now, apiKeyEnv, webhookSecret, leads, page, cookies>>

NextPaired ==
  \E id \in SfIds, tier \in TierSpellings, price \in PairedPrices : AssignTiers(id, tier, price)

SpecPaired == InitTier /\ [][NextPaired]_vars

\* C23: given the same price and the same supplied tier (absent, or present
\* in any letter case), the upsert endpoint and the sync transform assign the
\* same tier.
EndpointsAssignSameTier ==
  reply.op = "upsert-tier" => reply.tier = twin.tier

\* The part of C23 the code keeps: the two tiers are the same up to letter
\* case, and the same when no tier or a lower-case tier is supplied.
EndpointsAssignSameTierUpToCase ==
  reply.op = "upsert-tier" =>
    /\ ToLowerCase(reply.tier) = twin.tier
    /\ reply.supplied \in {Null, "public", "registered", "vip"} => reply.tier = twin.tier

\* C24: for each Clerk user id at most one Lead is created, also when the
\* same verified user.created event is delivered more than once.
OneLeadPerUser ==
  \A i, j \in 1..Len(leads) :
     leads[i].Website_User_ID__c = leads[j].Website_User_ID__c => i = j

\* The part of C24 the code keeps: one delivery creates at most one Lead,
\* and that Lead carries the id of the event's user.
OneLeadPerDelivery ==
  [][/\ Len(leads') <= Len(leads) + 1
     /\ Len(leads') = Len(leads) + 1 =>
          leads'[Len(leads')].Website_User_ID__c = reply'.request.evt.data.id]_vars

(***************************************************************************)
(* One request to one of the three route handlers that read or write       *)
(* through the store, the CRM, Clerk and the image service.                *)
(***************************************************************************)
NextCalls ==
  \/ Idle /\ \E viewer \in Viewers, clerkUp \in BOOLEAN, tierParam \in TierParams,
        limit \in Limits, offset \in Offsets, db \in DbStates :
        GetPropertiesDb(viewer, clerkUp, tierParam, limit, offset, db)
  \/ Idle /\ \E header \in AuthHeaders, body \in UpsertBodies, fault \in DbFaults :
        PostUpsert(header, body, fault)
  \/ Idle /\ \E viewer \in Viewers, clerkUp \in BOOLEAN, crm \in CrmFetches,
        transaction \in Transactions, images \in ImageLists :
        GetPropertyDetail(viewer, clerkUp, crm, transaction, images)

SpecCalls == Init /\ [][NextCalls]_vars

RouteHandlers == {"properties-db", "upsert", "detail"}

IsPrefix(s, t) == Len(s) <= Len(t) /\ s = SubSeq(t, 1, Len(s))

\* C25: each route handler performs at most one external call (CRM, store,
\* authentication provider or image service) per request before it returns.
AtMostOneExternalCall ==
  reply.op \in RouteHandlers => Len(reply.calls) <= 1

\* C25 (amended): the handlers make their external calls one after another
\* in a fixed order and stop at the first that ends the request: at most
\* three for properties-db (authentication, property query, sync status
\* query), at most two for the upsert (the write, then the sync status
\* update, and none for a request that is answered 401) and at most three
\* for the detail route, or four when the CRM client first has to request a
\* token (authentication, CRM token, CRM fetch, and the image fetch only for
\* a request that is answered 200).
ExternalCallsInOrder ==
  /\ reply.op = "properties-db" =>
       IsPrefix(reply.calls,
                <<"clerk.auth", "store.properties.select", "store.sync_status.select">>)
  /\ reply.op = "upsert" =>
       /\ IsPrefix(reply.calls, <<"store.properties.upsert", "store.sync_status.upsert">>)
       /\ reply.status = 401 => reply.calls = <<>>
       /\ Len(reply.calls) = 2 <=> reply.success
  /\ reply.op = "detail" =>
       /\ \/ IsPrefix(reply.calls,
                      <<"clerk.auth", "crm.getTransaction", "cloudinary.getPropertyImages">>)
          \/ IsPrefix(reply.calls,
                      <<"clerk.auth", "crm.token", "crm.getTransaction",
                        "cloudinary.getPropertyImages">>)
       /\ reply.calls # <<>>
       /\ reply.calls[Len(reply.calls)] = "cloudinary.getPropertyImages" <=>
            reply.response.status = 200

\* A batch of two rows was written with two store calls.
TwoRowsWrittenWithTwoCalls ==
  /\ reply.op = "upsert"
  /\ reply.success
  /\ Len(reply.applied) = 2
  /\ reply.calls = <<"store.properties.upsert", "store.sync_status.upsert">>

====
